---- MODULE Spec2Model ----
(***************************************************************************)
(* Polling triage engine of wecom-ai-platform: the per-room poll loop, the *)
(* end-of-cycle sweep (two asyncio tasks over one in-memory room map), the *)
(* durable RoomPollingState rows, and the alert escalation gate.           *)
(*                                                                         *)
(* Time is an integer clock.  One "day" is DayLen clock units; the cycle   *)
(* cutoff and the sweep hour are hours of that day.  The settings of       *)
(* app/core/config.py and the literal thresholds of polling_service.py are *)
(* scaled down, keeping their order:                                       *)
(*   flush pending (2) = sweep minimum (2) <= high-risk minimum (3)        *)
(*     < effective minimum (5) = flush raw (5) < raw minimum (15)          *)
(*     < pre-check raw override (30).                                      *)
(***************************************************************************)
EXTENDS Integers, Sequences, FiniteSets, TLC

\* ---------------------------------------------------------------- bounds
MaxTime == 8
MaxMsgs == 2
MaxRestarts == 1
MaxSaveFail == 1
MaxAlertTime == 3
MaxAlertCalls == 3
DowntimeStart == 3
MaxMsgsDowntime == 1
MaxLen == 3
MaxTickets == 2
MaxPending == 6
MaxRaw == 16
LegacyNow == 1
MaxLegacyCalls == 2
LocalClockOffset == 1
MaxInstant == 14
MaxShiftDay == 4

\* ------------------------------------------------------------- settings
DayLen == 3
InitTime == 5
DAILY_CYCLE_START_HOUR == 1
END_OF_CYCLE_ANALYSIS_HOUR == 0
ROOM_COOLDOWN_SECONDS == 2
ROOM_MIN_MESSAGES_FOR_ANALYZE == 2
ROOM_RAW_MIN_MESSAGES_FOR_ANALYZE == 3
HIGH_RISK_MIN_MESSAGES == 1
END_OF_CYCLE_MIN_MESSAGES == 1
ROOM_FETCH_LIMIT == 2
MAX_ROOMS_PER_ROUND == 2
FlushMinPending == 1
FlushMinRaw == 2
PreJudgeRawOverride == 4
PRE_JUDGE_ENABLED == TRUE
ISSUE_DEDUP_GLOBAL == TRUE

Rooms == {"r1", "r2"}
MsgKinds == {"eff", "noise", "hr"}
NoDate == -1

\* ------------------------------------------------------------ cycle math
\* The cycle start that never steps back to yesterday's cutoff.
TodayCycleStart(t) == (t \div DayLen) * DayLen + DAILY_CYCLE_START_HOUR

\* _get_current_cycle_start: today's cutoff if now >= it, else yesterday's.
GetCurrentCycleStart(t) ==
    LET today_cycle_start == (t \div DayLen) * DayLen + DAILY_CYCLE_START_HOUR
    IN  IF t >= today_cycle_start THEN today_cycle_start
        ELSE today_cycle_start - DayLen

\* strftime("%Y-%m-%d") of a timestamp: the calendar day it falls in.
DateOf(t) == t \div DayLen

HourOf(t) == t % DayLen

Max2(a, b) == IF a >= b THEN a ELSE b

\* ------------------------------------------------------------ room state
\* _get_room_state's fresh dict; needs_flush is an optional key (absent = FALSE).
FreshState ==
    [present |-> TRUE, last_msgtime |-> 0, pending_count |-> 0,
     raw_pending_count |-> 0, last_processed_at |-> 0, needs_flush |-> FALSE]

AbsentState ==
    [present |-> FALSE, last_msgtime |-> 0, pending_count |-> 0,
     raw_pending_count |-> 0, last_processed_at |-> 0, needs_flush |-> FALSE]

\* A RoomPollingState row (no needs_flush column, no cooldown column).
AbsentRow ==
    [present |-> FALSE, last_msgtime |-> 0, pending_count |-> 0,
     raw_pending_count |-> 0, last_processed_at |-> 0]

GetRoomState(rs, r) == IF rs[r].present THEN rs[r] ELSE FreshState

\* _save_room_state for the rooms in S: copies the four persisted fields.
RowOf(st) ==
    [present |-> TRUE, last_msgtime |-> st.last_msgtime,
     pending_count |-> st.pending_count,
     raw_pending_count |-> st.raw_pending_count,
     last_processed_at |-> st.last_processed_at]

SaveRoomStates(db, rs, S) ==
    [r \in Rooms |-> IF r \in S /\ rs[r].present THEN RowOf(rs[r]) ELSE db[r]]

\* _load_all_room_states: rebuilds the map from the rows; needs_flush is not
\* restored.
LoadAllRoomStates(db) ==
    [r \in Rooms |->
        IF db[r].present
        THEN [present |-> TRUE, last_msgtime |-> db[r].last_msgtime,
              pending_count |-> db[r].pending_count,
              raw_pending_count |-> db[r].raw_pending_count,
              last_processed_at |-> db[r].last_processed_at,
              needs_flush |-> FALSE]
        ELSE AbsentState]

\* _is_in_cooldown: time.time() - last < ROOM_COOLDOWN_SECONDS (last defaults 0).
IsInCooldown(lf, r, t) == (t - lf[r]) < ROOM_COOLDOWN_SECONDS

\* A pass end that leaves the cooldown as it was.
KeepCooldown(lf, r, t) == lf

\* _update_cooldown
UpdateCooldown(lf, r, t) == [lf EXCEPT ![r] = t]

\* A reset that forgets the raw counter (what ResetCounters must not be).
ResetPendingOnly(st) == [st EXCEPT !.pending_count = 0]

\* The two assignments that zero a room's counters (lines 168-169, 1476-1477,
\* 1735-1736, 1760-1761, 1815-1816, 1932-1933, 1958-1959, 2000-2001).
ResetCounters(st) == [st EXCEPT !.pending_count = 0, !.raw_pending_count = 0]


\* A rollover that marks no room for a final pass.
MarksNoRoom(st) == FALSE

\* _check_and_reset_cycle without its save: marks rooms with pending work as
\* needs_flush, moves every cursor to the new cycle start, zeroes the others.
CycleCursor(old, cycle_start_ms) == cycle_start_ms

NeedsFlushMark(st) ==
    st.pending_count >= FlushMinPending \/ st.raw_pending_count >= FlushMinRaw

CheckAndResetCycle(rs, ccd, t) ==
    LET cycle_start_ms == GetCurrentCycleStart(t)
        cycle_date == DateOf(cycle_start_ms)
        marked == [r \in Rooms |->
                     IF rs[r].present /\ NeedsFlushMark(rs[r])
                     THEN [rs[r] EXCEPT !.needs_flush = TRUE] ELSE rs[r]]
        moved == [r \in Rooms |->
                     IF ~marked[r].present THEN marked[r]
                     ELSE LET c == [marked[r] EXCEPT !.last_msgtime =
                                      CycleCursor(marked[r].last_msgtime, cycle_start_ms)]
                          IN  IF c.needs_flush THEN c ELSE ResetCounters(c)]
    IN  IF ccd # cycle_date
        THEN [rs |-> moved, ccd |-> cycle_date, rolled |-> TRUE]
        ELSE [rs |-> rs, ccd |-> ccd, rolled |-> FALSE]

\* ------------------------------------------------------------- messages
\* _fetch_room_messages: msgtime > max(cursor, cycle start), ascending by
\* msgtime, at most ROOM_FETCH_LIMIT rows (ties at the cut are the database's
\* choice).  The value is the set of possible result sets.
FetchRoomMessages(src, r, last_msgtime, cycle_start_ms) ==
    LET min_msgtime == Max2(last_msgtime, cycle_start_ms)
        cand == {m \in src : m.room = r /\ m.t > min_msgtime}
    IN  IF Cardinality(cand) <= ROOM_FETCH_LIMIT THEN {cand}
        ELSE {S \in SUBSET cand :
                /\ Cardinality(S) = ROOM_FETCH_LIMIT
                /\ \A a \in S, b \in cand \ S : a.t <= b.t}

MaxTimeOf(S, base) ==
    IF S = {} THEN base
    ELSE LET top == CHOOSE m \in S : \A o \in S : o.t <= m.t IN Max2(base, top.t)

\* An ingest that takes every fetched record for a new one.
EveryRecord(recs, st) == recs

\* The records of a batch that get inserted (not already in WeComMessage).
NewlyStored(recs, st) == {m \in recs : m.id \notin st}

\* polling_loop lines 1674-1678: cursor and both counters after a batch.
CountAfterIngest(st, recs, inserted, t) ==
    [st EXCEPT !.last_msgtime = MaxTimeOf(recs, st.last_msgtime),
               !.pending_count = @ + Cardinality({m \in inserted : m.kind # "noise"}),
               !.raw_pending_count = @ + Cardinality(inserted),
               !.last_processed_at = t]

\* What lines 1676-1677 add to the counters, message by message: every
\* inserted record is counted once more.
CountedAfterIngest(cnt, inserted) ==
    LET ids == {m.id : m \in inserted}
    IN  [i \in DOMAIN cnt \cup ids |->
            (IF i \in DOMAIN cnt THEN cnt[i] ELSE 0) + (IF i \in ids THEN 1 ELSE 0)]

\* _get_room_history_context: stored messages of the room at or after min_msgtime
\* (no filter when min_msgtime is falsy).
HistoryContext(src, st, r, min_msgtime) ==
    {m \in src : m.id \in st /\ m.room = r /\ (min_msgtime = 0 \/ m.t >= min_msgtime)}

\* _contains_high_risk_keyword over a context.
ContainsHighRisk(ctx) == \E m \in ctx : m.kind = "hr"

\* The three trigger thresholds: as scaled above, and as config.py ships them.
ScaledSettings ==
    [hr_min |-> HIGH_RISK_MIN_MESSAGES, room_min |-> ROOM_MIN_MESSAGES_FOR_ANALYZE,
     raw_min |-> ROOM_RAW_MIN_MESSAGES_FOR_ANALYZE]
DefaultSettings == [hr_min |-> 3, room_min |-> 5, raw_min |-> 15]

\* The decision with a high-risk rule that respects the cooldown.
DecideTriggerNoBypass(cfg, has_high_risk, in_cooldown, pending_count, raw_pending) ==
    IF ~in_cooldown /\ has_high_risk /\ pending_count >= cfg.hr_min THEN "high-risk"
    ELSE IF ~in_cooldown /\ pending_count >= cfg.room_min THEN "effective-volume"
    ELSE IF ~in_cooldown /\ raw_pending >= cfg.raw_min THEN "raw-volume"
    ELSE "none"

\* polling_loop lines 1705-1717 under the thresholds cfg.
DecideTrigger(cfg, has_high_risk, in_cooldown, pending_count, raw_pending) ==
    IF has_high_risk /\ pending_count >= cfg.hr_min THEN "high-risk"
    ELSE IF ~in_cooldown /\ pending_count >= cfg.room_min THEN "effective-volume"
    ELSE IF ~in_cooldown /\ raw_pending >= cfg.raw_min THEN "raw-volume"
    ELSE "none"

\* polling_loop lines 1705-1717: the new-message trigger decision.
TriggerDecision(has_high_risk, in_cooldown, pending_count, raw_pending) ==
    DecideTrigger(ScaledSettings, has_high_risk, in_cooldown, pending_count, raw_pending)

\* polling_loop lines 1683-1717: the early skip, then the decision.
DecideAfterIngest(cfg, stored_messages, has_high_risk, in_cooldown, pending_count, raw_pending) ==
    IF ~stored_messages /\ pending_count < cfg.room_min /\ raw_pending < cfg.raw_min
    THEN "none"
    ELSE DecideTrigger(cfg, has_high_risk, in_cooldown, pending_count, raw_pending)

\* polling_loop lines 1514-1519: the accumulated (no new message) trigger.
AccumulatedTrigger(in_cooldown, pending_count, raw_pending) ==
    ~in_cooldown /\ (pending_count >= ROOM_MIN_MESSAGES_FOR_ANALYZE
                     \/ raw_pending >= ROOM_RAW_MIN_MESSAGES_FOR_ANALYZE)

\* run_end_of_cycle_analysis lines 1897-1903: rooms the sweep takes.
SweepQualifies(st) ==
    /\ st.present
    /\ st.pending_count >= END_OF_CYCLE_MIN_MESSAGES
    /\ st.pending_count < ROOM_MIN_MESSAGES_FOR_ANALYZE

\* The pre-check verdict that skips full classification (lines 1732, 1930).
PreJudgeSkips(has_issue, cur_raw) == ~has_issue /\ cur_raw < PreJudgeRawOverride

\* _is_duplicate_issue, by scope: what the call can do given the stored tickets.
\*   "new"    - returns False without awaiting
\*   "dup"    - Stage A matched
\*   "ask_ai" - Stage A missed and a same-room ticket exists: awaits Stage B
ISSUE_DEDUP_DAYS == 7

InScopeTickets(tk, r, cycle_start_ms, t) ==
    IF ISSUE_DEDUP_GLOBAL
    THEN {x \in tk : x.t >= t - ISSUE_DEDUP_DAYS * DayLen}
    ELSE {x \in tk : x.room = r /\ x.t >= cycle_start_ms}

DedupOutcomes(tk, r, cycle_start_ms, t) ==
    LET existing == InScopeTickets(tk, r, cycle_start_ms, t)
    IN  IF existing = {} THEN {"new"}
        ELSE {"dup"} \cup (IF \E x \in existing : x.room = r THEN {"ask_ai"} ELSE {"new"})

\* _get_active_mohe_rooms + sort by last_processed_at + [:MAX_ROOMS_PER_ROUND]:
\* the possible rooms_to_process lists.
ActiveRooms(src, cycle_start_ms) == {m.room : m \in {x \in src : x.t > cycle_start_ms}}

RECURSIVE SeqsOver(_)
SeqsOver(S) ==
    IF S = {} THEN {<<>>}
    ELSE UNION {{<<x>> \o q : q \in SeqsOver(S \ {x})} : x \in S}

Prefix(q, n) == IF Len(q) <= n THEN q ELSE SubSeq(q, 1, n)

RoomsToProcess(rs, src, cycle_start_ms, max_rooms) ==
    LET act == ActiveRooms(src, cycle_start_ms)
        key(r) == GetRoomState(rs, r).last_processed_at
        sorted == {q \in SeqsOver(act) :
                     \A i \in 1..Len(q), j \in 1..Len(q) : i < j => key(q[i]) <= key(q[j])}
    IN  {Prefix(q, max_rooms) : q \in sorted}


\* ================================================================ state
VARIABLES
    now,              \* wall clock
    source,           \* ChatRecord rows: [id, room, t, kind]
    stored,           \* msg ids present in WeComMessage
    roomState,        \* _room_state
    dbState,          \* room_polling_state rows
    lastFull,         \* _room_last_full_process
    currentCycleDate, \* _current_cycle_date
    tickets,          \* TicketDraft rows: [room, t]
    issues,           \* number of Issue rows per room
    pollPc, pollCs, pollFlushQ, pollRoomQ, pollRoom, pollKind, pollRes,
    sweepPc, sweepCs, sweepQ, sweepRoom, sweepRes, sweepDate, lastRunDate,
    restarts, saveFails,
    caps,             \* the environment's budget in this specification (never changes)
    lastNormalStart,  \* start time of the room's last non-high-risk pass, 0 when
                      \* none or long ago (observation only)
    alertEvents, alertNow, alertMinHits, alertCalls, alertLast,
    dedup,            \* one call of _is_duplicate_issue: inputs and outcome
    trigCall,         \* one trigger decision after an ingest: inputs and outcome
    alertRows,        \* alert_events rows with their dedup_key (legacy keys included)
    cycleCall,        \* one call of _get_current_cycle_start: clock, time zone, outcome
    rerun,            \* "quiet" once a sweep run has returned and no message came since
    counted,          \* msg id -> how often the message was added to the counters
    winCall,          \* one triage pass run twice, on two resolved [since, until] windows
    anchorCall        \* one call of the anchor resolver: candidates, quote, outcome

pollVars == <<pollPc, pollCs, pollFlushQ, pollRoomQ, pollRoom, pollKind, pollRes>>
sweepVars == <<sweepPc, sweepCs, sweepQ, sweepRoom, sweepRes, sweepDate, lastRunDate>>
storeVars == <<source, stored, tickets, issues>>
memVars == <<roomState, lastFull, currentCycleDate>>
faultVars == <<restarts, saveFails, caps>>
alertVars == <<alertEvents, alertNow, alertMinHits, alertCalls, alertLast>>
engineVars == <<now, storeVars, memVars, dbState, pollVars, sweepVars, faultVars,
                lastNormalStart>>
tableVars == <<dedup, trigCall, alertRows, cycleCall, counted, winCall, anchorCall>>
callVars == <<tableVars, rerun>>
vars == <<engineVars, alertVars, callVars>>

NoRoom == "none"

\* Positions at which a task is suspended (an await or a sleep); the other task
\* and the environment run only while both tasks are suspended.
PollYield == pollPc \in {"boot", "sleep", "prejudge", "analyze", "dedup", "process", "dead"}
SweepYield == sweepPc \in {"idle", "prejudge", "analyze", "dedup", "process"}
PassPcs == {"prejudge", "analyze", "dedup", "process"}

SaveOutcomes == IF saveFails < caps.fails THEN {TRUE, FALSE} ELSE {TRUE}

\* _save_room_state(db, r) with its swallowed failure.
SaveRoomState(db, rs, r, ok) == IF ok THEN SaveRoomStates(db, rs, {r}) ELSE db

Caps(msgs, nrestarts, nfails) == [msgs |-> msgs, restarts |-> nrestarts, fails |-> nfails, reruns |-> FALSE, per_round |-> MAX_ROOMS_PER_ROUND, kinds |-> [r \in Rooms |-> <<>>]]

\* rerun after run_end_of_cycle_analysis has returned, and after a message has
\* arrived or been ingested (followed only where a run is called again).
RerunAfterReturn == IF caps.reruns THEN "quiet" ELSE rerun
RerunAfterNews(changed) == IF changed THEN "off" ELSE rerun

\* Everything but the clock, as the first import of the modules leaves it.
EngineIdle ==
    /\ source = {}
    /\ stored = {}
    /\ roomState = [r \in Rooms |-> AbsentState]
    /\ dbState = [r \in Rooms |-> AbsentRow]
    /\ lastFull = [r \in Rooms |-> 0]
    /\ currentCycleDate = NoDate
    /\ tickets = {}
    /\ issues = [r \in Rooms |-> 0]
    /\ pollPc = "boot" /\ pollCs = 0 /\ pollFlushQ = {} /\ pollRoomQ = <<>>
    /\ pollRoom = NoRoom /\ pollKind = "-" /\ pollRes = "-"
    /\ sweepPc = "idle" /\ sweepCs = 0 /\ sweepQ = {} /\ sweepRoom = NoRoom
    /\ sweepRes = "-" /\ sweepDate = NoDate /\ lastRunDate = NoDate
    /\ restarts = 0 /\ saveFails = 0
    /\ lastNormalStart = [r \in Rooms |-> 0]

EngineInit == now = InitTime /\ EngineIdle

\* ---------------------------------------------------------- environment
\* A recorded pass start is forgotten once a cooldown period has gone by.
Forget(start, t) == IF t - start >= ROOM_COOLDOWN_SECONDS THEN 0 ELSE start

Tick ==
    /\ now < MaxTime
    /\ now' = now + 1
    /\ lastNormalStart' = [r \in Rooms |-> Forget(lastNormalStart[r], now')]
    /\ UNCHANGED <<storeVars, memVars, dbState, pollVars, sweepVars, faultVars, alertVars, callVars>>

\* The kinds the n-th message of a room may have in this run: any kind when
\* the run has no script for the room, else the script's n-th entry (its
\* last entry from there on).
KindsAllowed(script, n) ==
    IF script = <<>> THEN MsgKinds
    ELSE script[IF n <= Len(script) THEN n ELSE Len(script)]

\* A chat message lands in the source table, stamped with the current time.
Arrive(r, k) ==
    /\ Cardinality({m \in source : m.room = r}) < caps.msgs[r]
    /\ k \in KindsAllowed(caps.kinds[r], Cardinality({m \in source : m.room = r}) + 1)
    /\ source' = source \cup {[id |-> Cardinality(source) + 1, room |-> r, t |-> now, kind |-> k]}
    /\ rerun' = RerunAfterNews(TRUE)
    /\ UNCHANGED <<now, stored, tickets, issues, memVars, dbState, pollVars, sweepVars,
                   faultVars, lastNormalStart, alertVars, tableVars>>

\* The process dies and is started again (on_startup): module globals are
\* fresh, both tasks start over, the database keeps its rows.
Restart ==
    /\ PollYield /\ SweepYield
    /\ restarts < caps.restarts
    /\ restarts' = restarts + 1
    /\ roomState' = [r \in Rooms |-> AbsentState]
    /\ lastFull' = [r \in Rooms |-> 0]
    /\ currentCycleDate' = NoDate
    /\ pollPc' = "boot" /\ pollCs' = 0 /\ pollFlushQ' = {} /\ pollRoomQ' = <<>>
    /\ pollRoom' = NoRoom /\ pollKind' = "-" /\ pollRes' = "-"
    /\ sweepPc' = "idle" /\ sweepCs' = 0 /\ sweepQ' = {} /\ sweepRoom' = NoRoom
    /\ sweepRes' = "-" /\ sweepDate' = NoDate /\ lastRunDate' = NoDate
    /\ UNCHANGED <<now, storeVars, dbState, saveFails, caps, lastNormalStart, alertVars, callVars>>


\* ------------------------------------------------------------ poll loop
\* What the end of a pass writes into the room's state.
FinishPass(rs, r) == [rs EXCEPT ![r] = ResetCounters(@)]

\* Lines 1476-1479: the end of a needs_flush pass.
FinishFlush(rs, r) == [rs EXCEPT ![r] = [ResetCounters(@) EXCEPT !.needs_flush = FALSE]]

NextRoomPc(q) == IF q = <<>> THEN "sleep" ELSE "rooms"

\* Top of a tick (lines 1415-1433): first-tick load, rollover check with its
\* save, cycle start, the list of needs_flush rooms.
PollBegin(ok) ==
    /\ pollPc \in {"boot", "sleep"} /\ SweepYield
    /\ LET anyRow == \E r \in Rooms : dbState[r].present
           rs0 == IF pollPc = "boot" THEN LoadAllRoomStates(dbState) ELSE roomState
           ccd0 == IF pollPc = "boot" /\ anyRow
                   THEN DateOf(GetCurrentCycleStart(now)) ELSE currentCycleDate
           chk == CheckAndResetCycle(rs0, ccd0, now)
           saves == chk.rolled /\ \E r \in Rooms : chk.rs[r].present
       IN  /\ (~saves => ok)
           /\ roomState' = chk.rs
           /\ currentCycleDate' = chk.ccd
           /\ dbState' = IF saves /\ ok THEN SaveRoomStates(dbState, chk.rs, Rooms) ELSE dbState
           /\ saveFails' = IF saves /\ ~ok THEN saveFails + 1 ELSE saveFails
           /\ pollFlushQ' = {r \in Rooms : chk.rs[r].present /\ chk.rs[r].needs_flush}
    /\ pollCs' = GetCurrentCycleStart(now)
    /\ pollPc' = "flush"
    /\ UNCHANGED <<now, storeVars, lastFull, pollRoomQ, pollRoom, pollKind, pollRes,
                   sweepVars, restarts, caps, lastNormalStart, alertVars, callVars>>

\* Lines 1436-1480 for one needs_flush room, up to its first await.
PollFlushRoom(r, ok) ==
    /\ pollPc = "flush" /\ SweepYield
    /\ r \in pollFlushQ
    /\ pollFlushQ' = pollFlushQ \ {r}
    /\ LET prev_cycle_ms == pollCs - DayLen
           ctx == HistoryContext(source, stored, r, prev_cycle_ms)
       IN  IF ctx = {}
           THEN /\ roomState' = FinishFlush(roomState, r)
                /\ dbState' = SaveRoomState(dbState, roomState', r, ok)
                /\ saveFails' = IF ok THEN saveFails ELSE saveFails + 1
                /\ UNCHANGED <<pollPc, pollRoom, pollKind, lastNormalStart>>
           ELSE /\ ok
                /\ pollPc' = "analyze" /\ pollRoom' = r /\ pollKind' = "flush"
                /\ lastNormalStart' = [lastNormalStart EXCEPT ![r] = now]
                /\ UNCHANGED <<roomState, dbState, saveFails>>
    /\ UNCHANGED <<now, storeVars, lastFull, currentCycleDate, pollCs, pollRoomQ, pollRes,
                   sweepVars, restarts, caps, alertVars, callVars>>

\* Lines 1484-1490: active rooms, sorted by last_processed_at (the sort key
\* creates a state for every active room), cut to MAX_ROOMS_PER_ROUND.
PollSelectRooms ==
    /\ pollPc = "flush" /\ SweepYield
    /\ pollFlushQ = {}
    /\ \E q \in RoomsToProcess(roomState, source, pollCs, caps.per_round) :
         /\ pollRoomQ' = q
         /\ pollPc' = NextRoomPc(q)
    /\ roomState' = [r \in Rooms |->
                       IF r \in ActiveRooms(source, pollCs)
                       THEN GetRoomState(roomState, r) ELSE roomState[r]]
    /\ UNCHANGED <<now, storeVars, dbState, lastFull, currentCycleDate, pollCs, pollFlushQ,
                   pollRoom, pollKind, pollRes, sweepVars, faultVars, lastNormalStart,
                   alertVars, callVars>>

\* Lines 1501-1746 for the next room of the round, up to the first await.
PollVisit(recs, ok) ==
    /\ pollPc = "rooms" /\ SweepYield
    /\ LET r == Head(pollRoomQ)
           rest == Tail(pollRoomQ)
           st == GetRoomState(roomState, r)
           in_cooldown == IsInCooldown(lastFull, r, now)
       IN
       /\ recs \in FetchRoomMessages(source, r, st.last_msgtime, pollCs)
       /\ pollRoomQ' = rest
       /\ IF recs = {}
          THEN \* case A: no new message
               LET trig == AccumulatedTrigger(in_cooldown, st.pending_count,
                                              st.raw_pending_count)
                   ctx == HistoryContext(source, stored, r, pollCs)
               IN  /\ UNCHANGED <<stored, roomState, counted>>
                   /\ IF ~trig
                      THEN /\ ok
                           /\ pollPc' = NextRoomPc(rest)
                           /\ UNCHANGED <<dbState, saveFails, lastFull, pollRoom, pollKind,
                                          lastNormalStart>>
                      ELSE IF ctx = {}
                      THEN /\ lastFull' = UpdateCooldown(lastFull, r, now)
                           /\ dbState' = SaveRoomState(dbState, roomState, r, ok)
                           /\ saveFails' = IF ok THEN saveFails ELSE saveFails + 1
                           /\ pollPc' = NextRoomPc(rest)
                           /\ UNCHANGED <<pollRoom, pollKind, lastNormalStart>>
                      ELSE /\ ok
                           /\ pollPc' = IF PRE_JUDGE_ENABLED THEN "prejudge" ELSE "analyze"
                           /\ pollRoom' = r /\ pollKind' = "accum"
                           /\ lastNormalStart' = [lastNormalStart EXCEPT ![r] = now]
                           /\ UNCHANGED <<dbState, saveFails, lastFull>>
          ELSE \* case B: ingest, count, save, decide
               LET inserted == NewlyStored(recs, stored)
                   st1 == CountAfterIngest(st, recs, inserted, now)
                   stored_messages == {m \in inserted : m.kind # "noise"}
                   stored1 == stored \cup {m.id : m \in inserted}
                   below == /\ st1.pending_count < ROOM_MIN_MESSAGES_FOR_ANALYZE
                            /\ st1.raw_pending_count < ROOM_RAW_MIN_MESSAGES_FOR_ANALYZE
                   chat_context == IF stored_messages # {} THEN recs
                                   ELSE HistoryContext(source, stored1, r, pollCs)
                   dec == IF stored_messages = {} /\ below THEN "none"
                          ELSE TriggerDecision(ContainsHighRisk(chat_context), in_cooldown,
                                               st1.pending_count, st1.raw_pending_count)
               IN  /\ stored' = stored1
                   /\ counted' = CountedAfterIngest(counted, inserted)
                   /\ roomState' = [roomState EXCEPT ![r] = st1]
                   /\ dbState' = SaveRoomState(dbState, roomState', r, ok)
                   /\ saveFails' = IF ok THEN saveFails ELSE saveFails + 1
                   /\ UNCHANGED lastFull
                   /\ IF dec = "none"
                      THEN /\ pollPc' = NextRoomPc(rest)
                           /\ UNCHANGED <<pollRoom, pollKind, lastNormalStart>>
                      ELSE /\ pollPc' = IF PRE_JUDGE_ENABLED THEN "prejudge" ELSE "analyze"
                           /\ pollRoom' = r
                           /\ pollKind' = IF dec = "high-risk" THEN "new_hr" ELSE "new"
                           /\ lastNormalStart' =
                                IF dec = "high-risk" THEN lastNormalStart
                                ELSE [lastNormalStart EXCEPT ![r] = now]
    /\ rerun' = RerunAfterNews(stored' # stored)
    /\ UNCHANGED <<now, source, tickets, issues, currentCycleDate, pollCs, pollFlushQ,
                   pollRes, sweepVars, restarts, caps, alertVars, dedup, trigCall,
                   alertRows, cycleCall, winCall, anchorCall>>


\* The bookkeeping that ends a poll-loop pass for room r: counters to 0, the
\* cooldown (not after a needs_flush pass), the save, on to the next room.
PollFinish(r, ok) ==
    /\ roomState' = IF pollKind = "flush" THEN FinishFlush(roomState, r)
                    ELSE FinishPass(roomState, r)
    /\ lastFull' = IF pollKind = "flush" THEN lastFull ELSE UpdateCooldown(lastFull, r, now)
    /\ dbState' = SaveRoomState(dbState, roomState', r, ok)
    /\ saveFails' = IF ok THEN saveFails ELSE saveFails + 1
    /\ pollPc' = IF pollKind = "flush" THEN "flush" ELSE NextRoomPc(pollRoomQ)
    /\ pollRoom' = NoRoom /\ pollKind' = "-" /\ pollRes' = "-"

\* pre_judge_has_issue returns (lines 1531-1541, 1730-1746).
PollPreJudge(has_issue, ok) ==
    /\ pollPc = "prejudge" /\ SweepYield
    /\ LET r == pollRoom
           cur_raw == roomState[r].raw_pending_count
       IN  IF PreJudgeSkips(has_issue, cur_raw)
           THEN PollFinish(r, ok)
           ELSE /\ ok
                /\ pollPc' = "analyze"
                /\ UNCHANGED <<roomState, lastFull, dbState, saveFails, pollRoom, pollKind,
                               pollRes>>
    /\ UNCHANGED <<now, storeVars, currentCycleDate, pollCs, pollFlushQ, pollRoomQ,
                   sweepVars, restarts, caps, lastNormalStart, alertVars, callVars>>

\* analyze_complete_llm returns: "ok" a usable phenomenon, "none" the
\* placeholder from the model, "fail" the placeholder dict of its except
\* branch.  Then Stage A of the duplicate check (lines 1448-1452, 1544-1574,
\* 1749-1765).
PollAnalyze(res, verdict, ok) ==
    /\ pollPc = "analyze" /\ SweepYield
    /\ LET r == pollRoom
           scope_start == IF pollKind = "flush" THEN pollCs - DayLen ELSE pollCs
       IN  IF pollKind = "flush" /\ res # "ok"
           THEN /\ verdict = "new"
                /\ PollFinish(r, ok)
           ELSE /\ verdict \in DedupOutcomes(tickets, r, scope_start, now)
                /\ IF verdict = "dup"
                   THEN PollFinish(r, ok)
                   ELSE /\ ok
                        /\ pollPc' = IF verdict = "ask_ai" THEN "dedup" ELSE "process"
                        /\ pollRes' = res
                        /\ UNCHANGED <<roomState, lastFull, dbState, saveFails, pollRoom,
                                       pollKind>>
    /\ UNCHANGED <<now, storeVars, currentCycleDate, pollCs, pollFlushQ, pollRoomQ,
                   sweepVars, restarts, caps, lastNormalStart, alertVars, callVars>>

\* _ai_dedup_check returns (Stage B).
PollDedup(is_dup, ok) ==
    /\ pollPc = "dedup" /\ SweepYield
    /\ LET r == pollRoom
       IN  IF is_dup
           THEN PollFinish(r, ok)
           ELSE /\ ok
                /\ pollPc' = "process"
                /\ UNCHANGED <<roomState, lastFull, dbState, saveFails, pollRoom, pollKind,
                               pollRes>>
    /\ UNCHANGED <<now, storeVars, currentCycleDate, pollCs, pollFlushQ, pollRoomQ,
                   sweepVars, restarts, caps, lastNormalStart, alertVars, callVars>>

\* process_message: what it leaves in the Issue and TicketDraft tables.
\*   "ignored" - the context is empty or noise (lines 1045-1048)
\*   "saved"   - an Issue, no draft (not a hard issue)
\*   "ticket"  - an Issue and a TicketDraft
IssuesAfter(iss, r, outcome) ==
    IF outcome = "ignored" THEN iss ELSE [iss EXCEPT ![r] = @ + 1]

TicketsAfter(tk, r, outcome, t) ==
    IF outcome = "ticket" THEN tk \cup {[room |-> r, t |-> t]} ELSE tk

ProcessOutcomes == {"ignored", "saved", "ticket", "raise"}

\* process_message returns or raises.  polling_loop has try/finally without an
\* except clause, so an exception leaves the while loop: the task ends.
PollProcess(outcome, ok) ==
    /\ pollPc = "process" /\ SweepYield
    /\ LET r == pollRoom
       IN  IF outcome = "raise"
           THEN /\ ok
                /\ pollPc' = "dead"
                /\ pollRoom' = NoRoom /\ pollKind' = "-" /\ pollRes' = "-"
                /\ UNCHANGED <<roomState, lastFull, dbState, saveFails, tickets, issues>>
           ELSE /\ issues' = IssuesAfter(issues, r, outcome)
                /\ tickets' = TicketsAfter(tickets, r, outcome, now)
                /\ PollFinish(r, ok)
    /\ UNCHANGED <<now, source, stored, currentCycleDate, pollCs, pollFlushQ, pollRoomQ,
                   sweepVars, restarts, caps, lastNormalStart, alertVars, callVars>>


\* ------------------------------------------------- end-of-cycle sweep task
\* run_end_of_cycle_task wakes at END_OF_CYCLE_ANALYSIS_HOUR once per calendar
\* day and calls run_end_of_cycle_analysis, which snapshots the qualifying rooms.
SweepBegin ==
    /\ sweepPc = "idle" /\ PollYield
    /\ HourOf(now) = END_OF_CYCLE_ANALYSIS_HOUR
    /\ DateOf(now) # lastRunDate
    /\ LET qualifying == {r \in Rooms : SweepQualifies(roomState[r])}
       IN  IF qualifying = {}
           THEN /\ lastRunDate' = DateOf(now)
                /\ rerun' = RerunAfterReturn
                /\ UNCHANGED <<sweepPc, sweepCs, sweepQ, sweepDate>>
           ELSE /\ sweepPc' = "rooms"
                /\ sweepQ' = qualifying
                /\ sweepCs' = GetCurrentCycleStart(now)
                /\ sweepDate' = DateOf(now)
                /\ UNCHANGED <<lastRunDate, rerun>>
    /\ UNCHANGED <<now, storeVars, memVars, dbState, pollVars, sweepRoom, sweepRes,
                   faultVars, lastNormalStart, alertVars, tableVars>>

\* The run returns: the task records the date it ran for.
SweepEnd ==
    /\ sweepPc = "rooms" /\ PollYield
    /\ sweepQ = {}
    /\ sweepPc' = "idle"
    /\ lastRunDate' = sweepDate
    /\ rerun' = RerunAfterReturn
    /\ UNCHANGED <<now, storeVars, memVars, dbState, pollVars, sweepCs, sweepQ, sweepRoom,
                   sweepRes, sweepDate, faultVars, lastNormalStart, alertVars, tableVars>>

\* Lines 1913-1928 for one qualifying room, up to the first await.
SweepRoom(r) ==
    /\ sweepPc = "rooms" /\ PollYield
    /\ r \in sweepQ
    /\ sweepQ' = sweepQ \ {r}
    /\ LET ctx == HistoryContext(source, stored, r, sweepCs)
       IN  IF ctx = {}
           THEN UNCHANGED <<sweepPc, sweepRoom, lastNormalStart>>
           ELSE /\ sweepPc' = IF PRE_JUDGE_ENABLED THEN "prejudge" ELSE "analyze"
                /\ sweepRoom' = r
                /\ lastNormalStart' = [lastNormalStart EXCEPT ![r] = now]
    /\ UNCHANGED <<now, storeVars, memVars, dbState, pollVars, sweepCs, sweepRes, sweepDate,
                   lastRunDate, faultVars, alertVars, callVars>>

\* The bookkeeping that ends a sweep pass: counters to 0 and the save; the
\* cooldown only after process_message (line 2002), not on the two skips.
SweepFinish(r, cooldown, ok) ==
    /\ roomState' = FinishPass(roomState, r)
    /\ lastFull' = IF cooldown THEN UpdateCooldown(lastFull, r, now) ELSE lastFull
    /\ dbState' = SaveRoomState(dbState, roomState', r, ok)
    /\ saveFails' = IF ok THEN saveFails ELSE saveFails + 1
    /\ sweepPc' = "rooms"
    /\ sweepRoom' = NoRoom /\ sweepRes' = "-"

SweepPreJudge(has_issue, ok) ==
    /\ sweepPc = "prejudge" /\ PollYield
    /\ LET r == sweepRoom
           cur_raw == roomState[r].raw_pending_count
       IN  IF PreJudgeSkips(has_issue, cur_raw)
           THEN SweepFinish(r, FALSE, ok)
           ELSE /\ ok
                /\ sweepPc' = "analyze"
                /\ UNCHANGED <<roomState, lastFull, dbState, saveFails, sweepRoom, sweepRes>>
    /\ UNCHANGED <<now, storeVars, currentCycleDate, pollVars, sweepCs, sweepQ, sweepDate,
                   lastRunDate, restarts, caps, lastNormalStart, alertVars, callVars>>

\* analyze_complete_llm returns a non-empty dict on every path, so the
\* "if not pre_analysis" branch of lines 1942-1948 is never taken.
SweepAnalyze(res, verdict, ok) ==
    /\ sweepPc = "analyze" /\ PollYield
    /\ LET r == sweepRoom
       IN  /\ verdict \in DedupOutcomes(tickets, r, sweepCs, now)
           /\ IF verdict = "dup"
              THEN SweepFinish(r, FALSE, ok)
              ELSE /\ ok
                   /\ sweepPc' = IF verdict = "ask_ai" THEN "dedup" ELSE "process"
                   /\ sweepRes' = res
                   /\ UNCHANGED <<roomState, lastFull, dbState, saveFails, sweepRoom>>
    /\ UNCHANGED <<now, storeVars, currentCycleDate, pollVars, sweepCs, sweepQ, sweepDate,
                   lastRunDate, restarts, caps, lastNormalStart, alertVars, callVars>>

SweepDedup(is_dup, ok) ==
    /\ sweepPc = "dedup" /\ PollYield
    /\ LET r == sweepRoom
       IN  IF is_dup
           THEN SweepFinish(r, FALSE, ok)
           ELSE /\ ok
                /\ sweepPc' = "process"
                /\ UNCHANGED <<roomState, lastFull, dbState, saveFails, sweepRoom, sweepRes>>
    /\ UNCHANGED <<now, storeVars, currentCycleDate, pollVars, sweepCs, sweepQ, sweepDate,
                   lastRunDate, restarts, caps, lastNormalStart, alertVars, callVars>>

\* process_message returns or raises; the sweep's except clause (lines
\* 2012-2015) ends the run, and the task records the date.
SweepProcess(outcome, ok) ==
    /\ sweepPc = "process" /\ PollYield
    /\ LET r == sweepRoom
       IN  IF outcome = "raise"
           THEN /\ ok
                /\ sweepPc' = "idle" /\ sweepQ' = {}
                /\ sweepRoom' = NoRoom /\ sweepRes' = "-"
                /\ lastRunDate' = sweepDate
                /\ rerun' = RerunAfterReturn
                /\ UNCHANGED <<roomState, lastFull, dbState, saveFails, tickets, issues>>
           ELSE /\ issues' = IssuesAfter(issues, r, outcome)
                /\ tickets' = TicketsAfter(tickets, r, outcome, now)
                /\ SweepFinish(r, TRUE, ok)
                /\ UNCHANGED <<sweepQ, lastRunDate, rerun>>
    /\ UNCHANGED <<now, source, stored, currentCycleDate, pollVars, sweepCs, sweepDate,
                   restarts, caps, lastNormalStart, alertVars, tableVars>>

\* run_end_of_cycle_once (scheduled_reports.py lines 219-224): the sweep called
\* again by hand, taken here right after a run that returned with no message
\* arrived or ingested since.  Nothing records a date for such a run.
SweepOnce ==
    /\ sweepPc = "idle" /\ PollYield
    /\ rerun = "quiet"
    /\ LET qualifying == {r \in Rooms : SweepQualifies(roomState[r])}
       IN  IF qualifying = {}
           THEN UNCHANGED <<sweepPc, sweepCs, sweepQ, sweepDate, rerun>>
           ELSE /\ sweepPc' = "rooms"
                /\ sweepQ' = qualifying
                /\ sweepCs' = GetCurrentCycleStart(now)
                /\ sweepDate' = lastRunDate
                /\ rerun' = "second"
    /\ UNCHANGED <<now, storeVars, memVars, dbState, pollVars, sweepRoom, sweepRes,
                   lastRunDate, faultVars, lastNormalStart, alertVars, tableVars>>

\* ------------------------------------------------- alert escalation gate
\* alert_policy_service.py.  alertEvents holds the alert_events row of each
\* room: should_send_alert inserts a row only when its lookup finds none and
\* rewrites dedup_key to the room id, so a room has at most one row.
ALERT_DEDUP_P0_SECONDS == 2
ALERT_DEDUP_P1_SECONDS == 2
ALERT_DEDUP_P2_SECONDS == 2
AlertMinHitsChoices == {1, 2, 3}
Severities == {"S1", "S2", "S3", "S4"}
RiskScores == {50, 80, 90}
NoSent == -1

NoEvent ==
    [present |-> FALSE, alert_level |-> "P3", hit_count |-> 0,
     last_seen_at |-> NoSent, last_sent_at |-> NoSent]

NoCall ==
    [called |-> FALSE, room |-> NoRoom, alert_level |-> "P3", eligible |-> FALSE,
     sent |-> FALSE, prev |-> NoEvent, at |-> 0]

compute_alert_level(severity, risk_score) ==
    IF risk_score >= 90 THEN "P0"
    ELSE IF severity = "S4" THEN "P0"
    ELSE IF severity = "S3" THEN "P1"
    ELSE IF severity = "S2" THEN "P2"
    ELSE "P3"

_dedup_window_seconds(level) ==
    IF level = "P0" THEN ALERT_DEDUP_P0_SECONDS
    ELSE IF level = "P1" THEN ALERT_DEDUP_P1_SECONDS
    ELSE ALERT_DEDUP_P2_SECONDS

\* Smaller is more severe.
\* A ranking that tells no level from another.
FlatRank(level) == IF level = "P0" THEN 3 ELSE 3

_level_rank(level) ==
    IF level = "P0" THEN 0 ELSE IF level = "P1" THEN 1 ELSE IF level = "P2" THEN 2 ELSE 3

\* Line 44: which classifications reach the gate at all.
AlertEligible(severity, risk_score, is_alert, is_bug) ==
    is_alert \/ severity \in {"S2", "S3", "S4"} \/ (is_bug /\ risk_score >= 80)

\* Python's "x or d" for a hit_count.
HitOr(h, d) == IF h = 0 THEN d ELSE h

\* What an INSERT stores for last_sent_at=None (line 105) on a column with the
\* Python-side default datetime.now (sql_models.py line 87): NULL, or the
\* default, which is the server's local time, while every other write uses
\* datetime.utcnow() (line 60). "utc" is a server whose local time is UTC,
\* "local" one that is ahead of UTC.
ColumnDefaults == {"null", "utc", "local"}
InsertedLastSentAt(column_default, t) ==
    IF column_default = "null" THEN NoSent
    ELSE IF column_default = "utc" THEN t
    ELSE t + LocalClockOffset

\* The gate with a never-sent event that waits one hit too long.
GateDecisionLateSend(latest, alert_level, t, min_hits, column_default) ==
    IF latest.present /\ _level_rank(alert_level) < _level_rank(latest.alert_level)
    THEN [event |-> [latest EXCEPT !.alert_level = alert_level, !.last_seen_at = t,
                                   !.hit_count = HitOr(@, 1) + 1, !.last_sent_at = t],
          sent |-> TRUE]
    ELSE IF /\ latest.present /\ latest.last_sent_at # NoSent
            /\ t - latest.last_sent_at < _dedup_window_seconds(alert_level)
    THEN LET h == HitOr(latest.hit_count, 1) + 1
         IN  [event |-> [latest EXCEPT !.hit_count = h, !.last_seen_at = t,
                                       !.alert_level = alert_level,
                                       !.last_sent_at = IF h < min_hits THEN @ ELSE t],
              sent |-> ~(h < min_hits)]
    ELSE IF latest.present /\ latest.last_sent_at = NoSent
    THEN LET h == HitOr(latest.hit_count, 0) + 1
         IN  [event |-> [latest EXCEPT !.hit_count = h, !.last_seen_at = t,
                                       !.alert_level = alert_level,
                                       !.last_sent_at = IF h > min_hits THEN t ELSE @],
              sent |-> h > min_hits]
    ELSE IF ~latest.present
    THEN LET sent_at == IF min_hits <= 1 THEN t ELSE InsertedLastSentAt(column_default, t)
         IN  [event |-> [present |-> TRUE, alert_level |-> alert_level, hit_count |-> 1,
                         last_seen_at |-> t, last_sent_at |-> sent_at],
              sent |-> sent_at # NoSent]
    ELSE [event |-> latest, sent |-> FALSE]

\* Lines 60-113: the row after the call and whether to notify.  On insert with
\* ALERT_MIN_HITS_TO_SEND > 1 the row is built with last_sent_at=None on a
\* column that has a Python-side default (sql_models.py line 87); whether NULL
\* or the default is stored is the ORM's choice, given by column_default.
GateDecision(latest, alert_level, t, min_hits, column_default) ==
    IF latest.present /\ _level_rank(alert_level) < _level_rank(latest.alert_level)
    THEN [event |-> [latest EXCEPT !.alert_level = alert_level, !.last_seen_at = t,
                                   !.hit_count = HitOr(@, 1) + 1, !.last_sent_at = t],
          sent |-> TRUE]
    ELSE IF /\ latest.present /\ latest.last_sent_at # NoSent
            /\ t - latest.last_sent_at < _dedup_window_seconds(alert_level)
    THEN LET h == HitOr(latest.hit_count, 1) + 1
         IN  [event |-> [latest EXCEPT !.hit_count = h, !.last_seen_at = t,
                                       !.alert_level = alert_level,
                                       !.last_sent_at = IF h < min_hits THEN @ ELSE t],
              sent |-> ~(h < min_hits)]
    ELSE IF latest.present /\ latest.last_sent_at = NoSent
    THEN LET h == HitOr(latest.hit_count, 0) + 1
         IN  [event |-> [latest EXCEPT !.hit_count = h, !.last_seen_at = t,
                                       !.alert_level = alert_level,
                                       !.last_sent_at = IF h >= min_hits THEN t ELSE @],
              sent |-> h >= min_hits]
    ELSE IF ~latest.present
    THEN LET sent_at == IF min_hits <= 1 THEN t ELSE InsertedLastSentAt(column_default, t)
         IN  [event |-> [present |-> TRUE, alert_level |-> alert_level, hit_count |-> 1,
                         last_seen_at |-> t, last_sent_at |-> sent_at],
              sent |-> sent_at # NoSent]
    ELSE [event |-> latest, sent |-> FALSE]

\* One call of should_send_alert for a room.
should_send_alert(room, severity, risk_score, is_alert, is_bug, column_default) ==
    /\ alertCalls < MaxAlertCalls
    /\ alertCalls' = alertCalls + 1
    /\ LET alert_level == compute_alert_level(severity, risk_score)
           eligible == AlertEligible(severity, risk_score, is_alert, is_bug)
           latest == alertEvents[room]
           d == GateDecision(latest, alert_level, alertNow, alertMinHits, column_default)
       IN  /\ alertEvents' = IF eligible THEN [alertEvents EXCEPT ![room] = d.event]
                             ELSE alertEvents
           /\ alertLast' = [called |-> TRUE, room |-> room, alert_level |-> alert_level,
                            eligible |-> eligible, sent |-> eligible /\ d.sent,
                            prev |-> latest, at |-> alertNow]
    /\ UNCHANGED <<engineVars, callVars, alertNow, alertMinHits>>

AlertTick ==
    /\ alertNow < MaxAlertTime
    /\ alertNow' = alertNow + 1
    /\ UNCHANGED <<engineVars, callVars, alertEvents, alertMinHits, alertCalls, alertLast>>

AlertIdle ==
    /\ alertEvents = [r \in Rooms |-> NoEvent] /\ alertNow = 0 /\ alertMinHits = 1
    /\ alertCalls = 0 /\ alertLast = NoCall

\* ------------------------------------------------- alert gate over rows
\* alert_events as a table: a row has its alert_id, its dedup_key and the
\* fields of the event. A dedup_key is the room id alone (level and category
\* "-"), or a legacy key room:category or room:category:level; the two
\* category columns are one value here.
Categories == {"c1", "c2"}

\* Lines 49-52.
BaseKey(room_id) == [room |-> room_id, category |-> "-", level |-> "-"]
LegacyKeys(room_id, category, alert_level) ==
    {[room |-> room_id, category |-> category, level |-> "-"],
     [room |-> room_id, category |-> category, level |-> alert_level]}

\* Lines 53-58: the rows one of which .first() returns. ORDER BY last_sent_at
\* DESC puts the NULLs first or last as the database does, and leaves rows
\* with equal values in any order.
LatestRows(rows, keys, nulls_first) ==
    LET matched == {x \in rows : x.dedup_key \in keys}
        nulls == {x \in matched : x.ev.last_sent_at = NoSent}
        sent == matched \ nulls
        newest == {x \in sent : \A y \in sent : y.ev.last_sent_at <= x.ev.last_sent_at}
    IN  IF nulls # {} /\ (nulls_first \/ sent = {}) THEN nulls ELSE newest

NextAlertId(rows) ==
    IF rows = {} THEN 1
    ELSE (CHOOSE i \in {x.alert_id : x \in rows} : \A x \in rows : x.alert_id <= i) + 1

\* should_send_alert (lines 33-113) on the table. The final return of line
\* 113 writes nothing; every other branch that finds a row sets its dedup_key
\* to the room id.
ShouldSendAlertRows(room_id, category, severity, risk_score, is_alert, is_bug, column_default, nulls_first) ==
    /\ alertCalls < MaxLegacyCalls
    /\ alertCalls' = alertCalls + 1
    /\ LET alert_level == compute_alert_level(severity, risk_score)
           eligible == AlertEligible(severity, risk_score, is_alert, is_bug)
           keys == {BaseKey(room_id)} \cup LegacyKeys(room_id, category, alert_level)
           found == LatestRows(alertRows, keys, nulls_first)
           Gate(ev) == GateDecision(ev, alert_level, alertNow, alertMinHits,
                                    column_default).event
       IN  IF ~eligible THEN UNCHANGED alertRows
           ELSE IF found = {}
           THEN alertRows' = alertRows \cup
                               {[alert_id |-> NextAlertId(alertRows),
                                 dedup_key |-> BaseKey(room_id), ev |-> Gate(NoEvent)]}
           ELSE \E latest \in found :
                  alertRows' = (alertRows \ {latest}) \cup
                      {[latest EXCEPT
                          !.ev = Gate(latest.ev),
                          !.dedup_key = IF Gate(latest.ev) = latest.ev THEN @
                                        ELSE BaseKey(room_id)]}
    /\ UNCHANGED <<engineVars, dedup, trigCall, cycleCall, rerun, counted, winCall, anchorCall, alertEvents, alertNow, alertMinHits,
                   alertLast>>

\* Rows written by the earlier releases for room r1: one per category and
\* key format, each notified once at P2.
LegacyRows ==
    {[alert_id |-> 1, dedup_key |-> [room |-> "r1", category |-> "c1", level |-> "-"],
      ev |-> [present |-> TRUE, alert_level |-> "P2", hit_count |-> 1,
              last_seen_at |-> 0, last_sent_at |-> 0]],
     [alert_id |-> 2, dedup_key |-> [room |-> "r1", category |-> "c2", level |-> "P2"],
      ev |-> [present |-> TRUE, alert_level |-> "P2", hit_count |-> 1,
              last_seen_at |-> LegacyNow, last_sent_at |-> LegacyNow]],
     [alert_id |-> 3, dedup_key |-> [room |-> "r1", category |-> "c1", level |-> "P2"],
      ev |-> [present |-> TRUE, alert_level |-> "P2", hit_count |-> 1,
              last_seen_at |-> 0, last_sent_at |-> 0]]}

\* ------------------------------------------------- duplicate check
\* A phenomenon is a sequence of characters. Chinese characters are written
\* by their pinyin, and "," stands for every character that the regular
\* expression of _extract_bigrams removes (punctuation and whitespace).
Chars == {"a", "b", ","}
PunctOrSpace == {",", " "}
ISSUE_DEDUP_SIMILARITY_THRESHOLD == [num |-> 7, den |-> 10]

RECURSIVE StringsUpTo(_)
StringsUpTo(n) ==
    IF n = 0 THEN {<<>>}
    ELSE LET shorter == StringsUpTo(n - 1)
         IN  shorter \cup {Append(s, c) : s \in {x \in shorter : Len(x) = n - 1}, c \in Chars}

\* The phenomena of scenario 3 and of scripts/test_dedup.py.
YunJiWuFaKaiJi == <<"yun", "ji", "wu", "fa", "kai", "ji">>
YunJiBuKaiJi == <<"yun", "ji", "bu", "kai", "ji">>
TikTokWuWangLuo == <<"T", "i", "k", "T", "o", "k", "wu", "wang", "luo">>
PiLiangQiDongYunJiShiBai ==
    <<"pi", "liang", "qi", "dong", "yun", "ji", "shi", "bai">>
Phenomena ==
    StringsUpTo(MaxLen)
        \cup {YunJiWuFaKaiJi, YunJiBuKaiJi, TikTokWuWangLuo, PiLiangQiDongYunJiShiBai}

\* str.lower and str.upper on the characters that occur.
Lower(c) == CASE c = "T" -> "t" [] c = "Y" -> "y" [] c = "E" -> "e" [] c = "S" -> "s"
              [] c = "N" -> "n" [] c = "O" -> "o" [] OTHER -> c
Upper(c) == CASE c = "t" -> "T" [] c = "y" -> "Y" [] c = "e" -> "E" [] c = "s" -> "S"
              [] c = "n" -> "N" [] c = "o" -> "O" [] OTHER -> c

\* Lines 388-398.
_extract_bigrams(text) ==
    LET lowered == [i \in 1..Len(text) |-> Lower(text[i])]
        kept == SelectSeq(lowered, LAMBDA c : c \notin PunctOrSpace)
    IN  IF Len(kept) < 2 THEN {}
        ELSE {<<kept[i], kept[i + 1]>> : i \in 1..(Len(kept) - 1)}

\* x >= y for two fractions with positive denominators.
AtLeast(x, y) == x.num * y.den >= y.num * x.den

\* Lines 419-424: max(jaccard, containment) as a fraction.
Similarity(new_bigrams, old_bigrams) ==
    LET overlap == Cardinality(new_bigrams \cap old_bigrams)
        union == Cardinality(new_bigrams \cup old_bigrams)
        min_len == IF Cardinality(new_bigrams) <= Cardinality(old_bigrams)
                   THEN Cardinality(new_bigrams) ELSE Cardinality(old_bigrams)
        jaccard == IF union > 0 THEN [num |-> overlap, den |-> union]
                   ELSE [num |-> 0, den |-> 1]
        containment == IF min_len > 0 THEN [num |-> overlap, den |-> min_len]
                       ELSE [num |-> 0, den |-> 1]
    IN  IF AtLeast(jaccard, containment) THEN jaccard ELSE containment

\* Lines 406-438: the loop of stage A over the tickets in scope.
StageAMatches(phenomenon, existing_tickets) ==
    LET new_bigrams == _extract_bigrams(phenomenon)
    IN  \E i \in 1..Len(existing_tickets) :
          LET old_phenomenon == existing_tickets[i].phenomenon
              old_bigrams == _extract_bigrams(old_phenomenon)
          IN  /\ old_phenomenon # <<>>
              /\ old_bigrams # {}
              /\ AtLeast(Similarity(new_bigrams, old_bigrams),
                         ISSUE_DEDUP_SIMILARITY_THRESHOLD)

\* What the fast LLM does when asked: it raises, or it returns a text.
AnswerTexts ==
    {<<"Y", "E", "S">>, <<" ", "y", "e", "s", " ">>, <<"N", "O">>,
     <<"U", "N", "S", "U", "R", "E">>}
Answers ==
    {[raised |-> FALSE, text |-> x] : x \in AnswerTexts}
        \cup {[raised |-> TRUE, text |-> <<>>]}

\* Line 327: (result or "").strip().upper()
StripUpper(text) ==
    LET RECURSIVE Lead(_)
        Lead(s) == IF s # <<>> /\ Head(s) = " " THEN Lead(Tail(s)) ELSE s
        RECURSIVE Trail(_)
        Trail(s) == IF s # <<>> /\ s[Len(s)] = " " THEN Trail(SubSeq(s, 1, Len(s) - 1)) ELSE s
        stripped == Trail(Lead(text))
    IN  [i \in 1..Len(stripped) |-> Upper(stripped[i])]

\* The semantic check failing closed: a failed call counts as a duplicate.
AiDedupCheckFailClosed(existing_phenomena, reply) ==
    IF existing_phenomena = <<>> THEN FALSE
    ELSE IF reply.raised THEN TRUE
    ELSE LET answer == StripUpper(reply.text)
         IN  Len(answer) >= 3 /\ SubSeq(answer, 1, 3) = <<"Y", "E", "S">>

\* Lines 294-334. The list is the one built at lines 444-449 (no empty entry).
_ai_dedup_check(existing_phenomena, reply) ==
    IF existing_phenomena = <<>> THEN FALSE
    ELSE IF reply.raised THEN FALSE
    ELSE LET answer == StripUpper(reply.text)
         IN  Len(answer) >= 3 /\ SubSeq(answer, 1, 3) = <<"Y", "E", "S">>

\* Lines 337-460 after the query: result, whether stage A matched, and whether
\* the semantic check was called.
_is_duplicate_issue(room_id, phenomenon, existing_tickets, reply) ==
    LET no == [result |-> FALSE, stage_a |-> FALSE, asked |-> FALSE]
        same_room_tickets == SelectSeq(existing_tickets, LAMBDA t : t.room = room_id)
        with_phenomenon == SelectSeq(same_room_tickets, LAMBDA t : t.phenomenon # <<>>)
        existing_phenomena == [i \in 1..Len(with_phenomenon) |-> with_phenomenon[i].phenomenon]
    IN  IF phenomenon = <<>> THEN no
        ELSE IF existing_tickets = <<>> THEN no
        ELSE IF _extract_bigrams(phenomenon) = {} THEN no
        ELSE IF StageAMatches(phenomenon, existing_tickets)
        THEN [result |-> TRUE, stage_a |-> TRUE, asked |-> FALSE]
        ELSE IF existing_phenomena # <<>>
        THEN [result |-> _ai_dedup_check(existing_phenomena, reply),
              stage_a |-> FALSE, asked |-> TRUE]
        ELSE no

TicketLists ==
    UNION {[1..n -> [room : Rooms, phenomenon : Phenomena]] : n \in 0..MaxTickets}

NoDedupCall ==
    [pc |-> "idle", room_id |-> NoRoom, phenomenon |-> <<>>, existing_tickets |-> <<>>,
     reply |-> [raised |-> FALSE, text |-> <<>>],
     out |-> [result |-> FALSE, stage_a |-> FALSE, asked |-> FALSE]]

\* ------------------------------------------------- trigger decision
NoTrigCall ==
    [pc |-> "idle", cfg |-> ScaledSettings, stored_messages |-> FALSE,
     has_high_risk |-> FALSE, in_cooldown |-> FALSE, pending_count |-> 0,
     raw_pending |-> 0, decision |-> "none"]

\* ------------------------------------------------- cycle start on a local clock
\* datetime.now() is the server's wall clock: the instant plus the zone's offset,
\* which changes by shift_by at the instant shift_at (0: a zone without
\* daylight-saving shifts).
LocalTime(instant, shift_at, shift_by) ==
    instant + (IF instant >= shift_at THEN shift_by ELSE 0)

\* datetime.timestamp() of a naive wall-clock value: the instant it denotes,
\* read with the offset before the shift when that reading exists or none does.
Timestamp(wall, shift_at, shift_by) ==
    IF wall < shift_at THEN wall
    ELSE IF wall - shift_by >= shift_at THEN wall - shift_by
    ELSE wall

NoCycleCall == [pc |-> "idle", instant |-> 0, shift_at |-> 0, shift_by |-> 0, cycle_start |-> 0]

\* _get_current_cycle_start (lines 90-114) called at cycleCall.instant.
GetCurrentCycleStartCall ==
    /\ cycleCall.pc = "input"
    /\ LET wall == LocalTime(cycleCall.instant, cycleCall.shift_at, cycleCall.shift_by)
           cycle_start == GetCurrentCycleStart(wall)
       IN  cycleCall' = [cycleCall EXCEPT !.pc = "done",
                           !.cycle_start = Timestamp(cycle_start, cycleCall.shift_at,
                                                     cycleCall.shift_by)]
    /\ UNCHANGED <<engineVars, alertVars, dedup, trigCall, alertRows, rerun, counted, winCall, anchorCall>>

NoWinCall == [pc |-> "idle"]
NoAnchorCall == [pc |-> "idle"]

OtherIdle ==
    /\ rerun = "off" /\ cycleCall = NoCycleCall /\ counted = <<>>
    /\ winCall = NoWinCall /\ anchorCall = NoAnchorCall

CallsIdle == dedup = NoDedupCall /\ trigCall = NoTrigCall /\ alertRows = {} /\ OtherIdle

\* The decision of lines 1683-1717 on the inputs drawn by the initial state.
DecideAfterIngestCall ==
    /\ trigCall.pc = "input"
    /\ trigCall' = [trigCall EXCEPT
                  !.pc = "done",
                  !.decision = DecideAfterIngest(trigCall.cfg, trigCall.stored_messages,
                                                 trigCall.has_high_risk, trigCall.in_cooldown,
                                                 trigCall.pending_count, trigCall.raw_pending)]
    /\ UNCHANGED <<engineVars, alertVars, dedup, alertRows, cycleCall, rerun, counted, winCall, anchorCall>>

\* One call of _is_duplicate_issue on the inputs drawn by the initial state.
IsDuplicateIssueCall ==
    /\ dedup.pc = "input"
    /\ dedup' = [dedup EXCEPT
                   !.pc = "done",
                   !.out = _is_duplicate_issue(dedup.room_id, dedup.phenomenon,
                                               dedup.existing_tickets, dedup.reply)]
    /\ UNCHANGED <<engineVars, alertVars, trigCall, alertRows, cycleCall, rerun, counted, winCall, anchorCall>>

\* The phenomena a triage pass draws its two analysis results from;
\* analyze_complete_llm never returns an empty one (ticket_service.py lines
\* 690, 712, 727).
AB == <<"a", "b">>
ABA == <<"a", "b", "a">>
PassPhenomena == {AB, ABA, YunJiWuFaKaiJi, YunJiBuKaiJi, TikTokWuWangLuo}

\* One triage pass over the ticket table dedup.existing_tickets: the duplicate
\* check on the phenomenon of the pre-analysis call (lines 1749-1756), then
\* process_message, whose own analysis call gives the phenomenon the ticket
\* stores (lines 1058, 1138-1181); a draft is written for a hard issue only.
TriagePass(room_id, phenomenon, phenomenon_text, reply, is_hard) ==
    /\ dedup.pc = "table"
    /\ Len(dedup.existing_tickets) < MaxTickets
    /\ LET out == _is_duplicate_issue(room_id, phenomenon, dedup.existing_tickets, reply)
           draft == [room |-> room_id, phenomenon |-> phenomenon_text]
       IN  dedup' = [dedup EXCEPT
                       !.room_id = room_id, !.phenomenon = phenomenon, !.reply = reply,
                       !.out = out,
                       !.existing_tickets = IF ~out.result /\ is_hard
                                            THEN Append(@, draft) ELSE @]
    /\ UNCHANGED <<engineVars, alertVars, trigCall, alertRows, cycleCall, rerun, counted, winCall, anchorCall>>

\* ----------------------------------------------------------------- engine
Init ==
    /\ EngineInit /\ AlertIdle /\ CallsIdle
    /\ caps = Caps([r \in Rooms |-> IF r = "r1" THEN MaxMsgs ELSE 0], 0, 0)

PollBeginStep == \E ok \in SaveOutcomes : PollBegin(ok)
PollFlushRoomStep == \E r \in Rooms, ok \in SaveOutcomes : PollFlushRoom(r, ok)
PollVisitStep == \E recs \in SUBSET source, ok \in SaveOutcomes : PollVisit(recs, ok)
PollPreJudgeStep == \E h \in BOOLEAN, ok \in SaveOutcomes : PollPreJudge(h, ok)
PollAnalyzeStep ==
    \E res \in {"ok", "none", "fail"}, v \in {"new", "dup", "ask_ai"}, ok \in SaveOutcomes :
        PollAnalyze(res, v, ok)
PollDedupStep == \E d \in BOOLEAN, ok \in SaveOutcomes : PollDedup(d, ok)
PollProcessStep == \E o \in ProcessOutcomes, ok \in SaveOutcomes : PollProcess(o, ok)
SweepRoomStep == \E r \in Rooms : SweepRoom(r)
SweepPreJudgeStep == \E h \in BOOLEAN, ok \in SaveOutcomes : SweepPreJudge(h, ok)
SweepAnalyzeStep ==
    \E res \in {"ok", "none", "fail"}, v \in {"new", "dup", "ask_ai"}, ok \in SaveOutcomes :
        SweepAnalyze(res, v, ok)
SweepDedupStep == \E d \in BOOLEAN, ok \in SaveOutcomes : SweepDedup(d, ok)
SweepProcessStep == \E o \in ProcessOutcomes, ok \in SaveOutcomes : SweepProcess(o, ok)
ArriveStep == \E r \in Rooms, k \in MsgKinds : Arrive(r, k)

Next ==
    \/ Tick
    \/ ArriveStep
    \/ PollBeginStep
    \/ PollFlushRoomStep
    \/ PollSelectRooms
    \/ PollVisitStep
    \/ PollPreJudgeStep
    \/ PollAnalyzeStep
    \/ PollDedupStep
    \/ PollProcessStep
    \/ SweepBegin
    \/ SweepRoomStep
    \/ SweepEnd
    \/ SweepPreJudgeStep
    \/ SweepAnalyzeStep
    \/ SweepDedupStep
    \/ SweepProcessStep

Spec == Init /\ [][Next]_vars

\* The engine as scheduled: the poll loop wakes after every sleep, synchronous
\* code runs on to its next await, and every awaited call returns; the clock
\* and the senders owe nothing.
Fairness ==
    /\ WF_vars(PollBeginStep) /\ WF_vars(PollFlushRoomStep) /\ WF_vars(PollSelectRooms)
    /\ WF_vars(PollVisitStep) /\ WF_vars(PollPreJudgeStep) /\ WF_vars(PollAnalyzeStep)
    /\ WF_vars(PollDedupStep) /\ WF_vars(PollProcessStep)
    /\ WF_vars(SweepRoomStep) /\ WF_vars(SweepEnd) /\ WF_vars(SweepPreJudgeStep)
    /\ WF_vars(SweepAnalyzeStep) /\ WF_vars(SweepDedupStep) /\ WF_vars(SweepProcessStep)

SpecFair == Spec /\ Fairness

\* The same engine with process restarts and failing saves.
InitCrash ==
    /\ EngineInit /\ AlertIdle /\ CallsIdle
    /\ caps = Caps([r \in Rooms |-> IF r = "r1" THEN MaxMsgs ELSE 0], MaxRestarts, MaxSaveFail)

NextCrash == Next \/ Restart

SpecCrash == InitCrash /\ [][NextCrash]_vars

\* A process that comes up a cycle earlier and may be restarted once, with a
\* room that receives little: the clock can pass a cycle boundary while the
\* process is down.
InitDowntime ==
    /\ now = DowntimeStart /\ EngineIdle /\ AlertIdle /\ CallsIdle
    /\ caps = Caps([r \in Rooms |-> IF r = "r1" THEN MaxMsgsDowntime ELSE 0], MaxRestarts, 0)

SpecDowntime == InitDowntime /\ [][NextCrash]_vars

\* The engine with a sweep that is run again once it has returned.
InitTwice ==
    /\ EngineInit /\ AlertIdle /\ CallsIdle
    /\ caps = [Caps([r \in Rooms |-> IF r = "r1" THEN MaxMsgs ELSE 0], 0, 0) EXCEPT !.reruns = TRUE]

NextTwice == Next \/ SweepOnce

SweepTwiceSpec == InitTwice /\ [][NextTwice]_vars

\* The duplicate check on its own: every phenomenon, ticket list and reply.
DedupInit ==
    /\ EngineInit /\ AlertIdle
    /\ caps = Caps([r \in Rooms |-> 0], 0, 0)
    /\ trigCall = NoTrigCall /\ alertRows = {} /\ OtherIdle
    /\ \E p \in Phenomena, ts \in TicketLists, a \in Answers :
         dedup = [NoDedupCall EXCEPT !.pc = "input", !.room_id = "r1", !.phenomenon = p,
                                     !.existing_tickets = ts, !.reply = a]

DedupNext == IsDuplicateIssueCall

DedupSpec == DedupInit /\ [][DedupNext]_vars

\* Triage passes one after another over a ticket table that starts empty.
TriageInit ==
    /\ EngineInit /\ AlertIdle
    /\ caps = Caps([r \in Rooms |-> 0], 0, 0)
    /\ trigCall = NoTrigCall /\ alertRows = {} /\ OtherIdle
    /\ dedup = [NoDedupCall EXCEPT !.pc = "table"]

TriagePassStep ==
    \E room_id \in Rooms, phenomenon \in PassPhenomena,
       phenomenon_text \in PassPhenomena, reply \in Answers, is_hard \in BOOLEAN :
        TriagePass(room_id, phenomenon, phenomenon_text, reply, is_hard)

TriageNext == TriagePassStep

TriageSpec == TriageInit /\ [][TriageNext]_vars

\* The alert gate on a table that starts with rows under legacy keys.
LegacyInit ==
    /\ EngineInit
    /\ caps = Caps([r \in Rooms |-> 0], 0, 0)
    /\ dedup = NoDedupCall /\ trigCall = NoTrigCall /\ OtherIdle
    /\ alertEvents = [r \in Rooms |-> NoEvent] /\ alertLast = NoCall
    /\ alertNow = LegacyNow /\ alertCalls = 0
    /\ alertMinHits \in AlertMinHitsChoices
    /\ alertRows \in SUBSET LegacyRows

ShouldSendAlertRowsStep ==
    \E room \in Rooms, category \in Categories, severity \in Severities,
       risk_score \in RiskScores, is_alert \in BOOLEAN, is_bug \in BOOLEAN,
       column_default \in ColumnDefaults, nulls_first \in BOOLEAN :
        ShouldSendAlertRows(room, category, severity, risk_score, is_alert, is_bug,
                            column_default, nulls_first)

LegacyNext == ShouldSendAlertRowsStep \/ AlertTick

LegacySpec == LegacyInit /\ [][LegacyNext]_vars

\* The trigger decision on its own: every combination of its inputs. A room's
\* raw count is never below its effective count (both grow at lines 1676-1677
\* and are zeroed together), and new effective messages are counted.
TriggerInit ==
    /\ EngineInit /\ AlertIdle /\ dedup = NoDedupCall /\ alertRows = {} /\ OtherIdle
    /\ caps = Caps([r \in Rooms |-> 0], 0, 0)
    /\ \E cfg \in {ScaledSettings, DefaultSettings}, sm \in BOOLEAN, h \in BOOLEAN,
          c \in BOOLEAN, p \in 0..MaxPending, raw \in 0..MaxRaw :
         /\ p <= raw /\ (sm => p >= 1)
         /\ trigCall = [NoTrigCall EXCEPT !.pc = "input", !.cfg = cfg, !.stored_messages = sm,
                                      !.has_high_risk = h, !.in_cooldown = c,
                                      !.pending_count = p, !.raw_pending = raw]

TriggerNext == DecideAfterIngestCall

TriggerSpec == TriggerInit /\ [][TriggerNext]_vars

\* The cycle start on its own: every instant of the first days, in a zone
\* without shifts and in zones whose clock moves an hour forward or back at a
\* midnight (shifts happen at night, outside the cutoff hour).
CycleInit ==
    /\ EngineInit /\ AlertIdle
    /\ caps = Caps([r \in Rooms |-> 0], 0, 0)
    /\ dedup = NoDedupCall /\ trigCall = NoTrigCall /\ alertRows = {} /\ rerun = "off" /\ counted = <<>>
    /\ winCall = NoWinCall /\ anchorCall = NoAnchorCall
    /\ \E instant \in DayLen..MaxInstant, day \in 1..MaxShiftDay, shift_by \in {-1, 0, 1} :
         cycleCall = [NoCycleCall EXCEPT !.pc = "input", !.instant = instant,
                                        !.shift_at = day * DayLen, !.shift_by = shift_by]

CycleNext == GetCurrentCycleStartCall

CycleSpec == CycleInit /\ [][CycleNext]_vars

\* The alert gate on its own: the engine stays in its initial state.
AlertInit ==
    /\ EngineInit /\ CallsIdle
    /\ caps = Caps([r \in Rooms |-> 0], 0, 0)
    /\ alertEvents = [r \in Rooms |-> NoEvent] /\ alertNow = 0
    /\ alertMinHits \in AlertMinHitsChoices
    /\ alertCalls = 0 /\ alertLast = NoCall

ShouldSendAlertStep ==
    \E room \in Rooms, severity \in Severities, risk_score \in RiskScores,
       is_alert \in BOOLEAN, is_bug \in BOOLEAN, column_default \in ColumnDefaults :
        should_send_alert(room, severity, risk_score, is_alert, is_bug, column_default)

AlertNext == AlertTick \/ ShouldSendAlertStep

AlertSpec == AlertInit /\ [][AlertNext]_vars

\* ================================================================ claims
\* Steps of the model, recognised by what they change.
\* A triage pass of the poll loop for room r starts / ends (returns to the loop).
PollPassStarts(r) == pollRoom # r /\ pollRoom' = r
PollPassEnds(r) == pollRoom = r /\ pollRoom' = NoRoom /\ pollPc' # "dead"
SweepPassStarts(r) == sweepRoom # r /\ sweepRoom' = r
SweepPassEnds(r) == sweepRoom = r /\ sweepRoom' = NoRoom /\ sweepPc' = "rooms"
\* The needs_flush handling of room r ends without a pass (no context).
FlushWithoutPass(r) ==
    pollPc = "flush" /\ r \in pollFlushQ /\ r \notin pollFlushQ' /\ pollPc' = "flush"
\* The rollover resets room r (it is not marked needs_flush).
RolloverResets(r) ==
    currentCycleDate' # currentCycleDate /\ roomState'[r].present /\ ~roomState'[r].needs_flush
CountersDrop(r) ==
    \/ roomState'[r].pending_count < roomState[r].pending_count
    \/ roomState'[r].raw_pending_count < roomState[r].raw_pending_count
CountersZero(st) == st.pending_count = 0 /\ st.raw_pending_count = 0

\* C1: no two triage passes for the same room are in progress at the same
\* time: the poll loop and the sweep are never both inside a pass (suspended
\* at one of its awaits) for one room.
C1_NoOverlappingPasses ==
    ~(pollPc \in PassPcs /\ sweepPc \in PassPcs /\ pollRoom = sweepRoom)

\* C2: cooldown invariant: whenever a pass that is not a high-risk-keyword
\* trigger starts for a room (new-message trigger, accumulated trigger,
\* needs_flush pass, sweep), the room's previous such start lies at least
\* ROOM_COOLDOWN_SECONDS back.
C2_CooldownBetweenNormalStarts ==
    [][\A r \in Rooms :
         ((PollPassStarts(r) /\ pollKind' # "new_hr") \/ SweepPassStarts(r))
           => now - lastNormalStart[r] >= ROOM_COOLDOWN_SECONDS]_vars

\* C3: escalation invariant: the stored alert_level of an event that was
\* notified at P0 is never changed away from P0 by a later should_send_alert
\* call.
C3_P0NeverDowngraded ==
    [][\A r \in Rooms :
         (/\ alertEvents[r].present /\ alertEvents[r].alert_level = "P0"
          /\ alertEvents[r].last_sent_at # NoSent)
           => alertEvents'[r].alert_level = "P0"]_vars

\* The last call hit an event that had been sent, at a level not more severe
\* than the stored one.
AlertRepeat ==
    /\ alertLast.called /\ alertLast.eligible
    /\ alertLast.prev.present /\ alertLast.prev.last_sent_at # NoSent
    /\ _level_rank(alertLast.alert_level) >= _level_rank(alertLast.prev.alert_level)
AlertInsideWindow ==
    alertLast.at - alertLast.prev.last_sent_at < _dedup_window_seconds(alertLast.alert_level)

\* C4: an eligible message for a key whose event was sent, at a level not more
\* severe than the stored one and after the level's dedup window has elapsed,
\* starts a fresh cycle: with ALERT_MIN_HITS_TO_SEND = 1 it is notified at once.
C4_OutsideWindowFreshCycle ==
    (AlertRepeat /\ ~AlertInsideWindow /\ alertMinHits = 1) => alertLast.sent

\* C5: inside the dedup window after a notification, an eligible message at the
\* same or a lower severity that arrives after hit_count has already reached
\* the minimum-observations threshold does not produce another notification.
C5_InsideWindowNotifiesOnce ==
    (AlertRepeat /\ AlertInsideWindow /\ alertLast.prev.hit_count >= alertMinHits)
        => ~alertLast.sent

\* C6 (as stated): the counters of a room drop only when a trigger completes
\* successfully (process_message returned) or a rollover finds the room not
\* needing a flush, and in no other step.
C6_ResetOnlyOnSuccessOrRollover ==
    [][\A r \in Rooms :
         CountersDrop(r)
           => \/ (PollPassEnds(r) /\ pollPc = "process")
              \/ (SweepPassEnds(r) /\ sweepPc = "process")
              \/ RolloverResets(r)]_vars

\* C6 (amended): while the process runs, the counters of a room never drop
\* except to 0 both at once, and that happens only at the end of a triage pass
\* for the room (whatever its verdict, in the poll loop or the sweep), at the
\* end of its needs_flush handling, or at a rollover that does not mark it.
C6_CountersResetOnlyAtPassEndOrRollover ==
    [][\A r \in Rooms :
         CountersDrop(r)
           => /\ CountersZero(roomState'[r])
              /\ \/ PollPassEnds(r)
                 \/ SweepPassEnds(r)
                 \/ FlushWithoutPass(r)
                 \/ RolloverResets(r)]_vars

\* A pass that ended without creating an issue has zeroed the counters of a
\* room whose messages were ingested in this cycle.
C6_Witness ==
    \E r \in Rooms :
        /\ roomState[r].present /\ CountersZero(roomState[r])
        /\ issues[r] = 0 /\ lastFull[r] > 0
        /\ \E m \in source : m.room = r /\ m.id \in stored /\ m.t > GetCurrentCycleStart(now)

\* C7: a room's cursor never decreases.
C7_CursorNeverDecreases ==
    [][\A r \in Rooms : roomState'[r].last_msgtime >= roomState[r].last_msgtime]_vars

\* C8: an error raised while processing a room does not terminate the poll
\* loop.
C8_PollLoopSurvives == pollPc # "dead"

\* What a restart rebuilds: the rows loaded, every cooldown timestamp gone.
RestartImage ==
    [roomState |-> LoadAllRoomStates(dbState), lastFull |-> [r \in Rooms |-> 0]]

\* C9: whenever both tasks are suspended (the process can be killed there),
\* what a restart rebuilds equals the in-memory state of every room in cursor,
\* pending_count, raw_pending_count, cooldown timestamp and needs_flush.
C9_RestartReproducesState ==
    (PollYield /\ SweepYield) =>
        \A r \in Rooms :
            /\ RestartImage.roomState[r].last_msgtime = roomState[r].last_msgtime
            /\ RestartImage.roomState[r].pending_count = roomState[r].pending_count
            /\ RestartImage.roomState[r].raw_pending_count = roomState[r].raw_pending_count
            /\ RestartImage.roomState[r].needs_flush = roomState[r].needs_flush
            /\ RestartImage.lastFull[r] = lastFull[r]

\* C10: when the pass whose classification failed comes to its end, in the poll
\* loop and in the sweep alike, the room's counters are unchanged, no issue
\* has been created, and the room is in cooldown.
C10_FailedClassificationKeepsCounters ==
    [][\A r \in Rooms :
         \/ (PollPassEnds(r) /\ pollRes = "fail")
         \/ (SweepPassEnds(r) /\ sweepRes = "fail")
         => /\ roomState'[r].pending_count = roomState[r].pending_count
            /\ roomState'[r].raw_pending_count = roomState[r].raw_pending_count
            /\ issues'[r] = issues[r]
            /\ IsInCooldown(lastFull', r, now)]_vars

\* The step is a rollover (_check_and_reset_cycle returned True).
RolloverStep == currentCycleDate' # currentCycleDate

\* C11: at a rollover every room above the safety threshold is marked
\* needs_flush and keeps its counters, every other room has both counters 0
\* and its cursor at the new cycle start, and what durable storage holds for
\* every room is its state after the rollover.
C11_RolloverMarksResetsAndSaves ==
    [][RolloverStep =>
         \A r \in Rooms : roomState[r].present =>
             /\ NeedsFlushMark(roomState[r]) =>
                   /\ roomState'[r].needs_flush
                   /\ roomState'[r].pending_count = roomState[r].pending_count
                   /\ roomState'[r].raw_pending_count = roomState[r].raw_pending_count
             /\ (~NeedsFlushMark(roomState[r]) /\ ~roomState[r].needs_flush) =>
                   /\ ~roomState'[r].needs_flush
                   /\ CountersZero(roomState'[r])
                   /\ roomState'[r].last_msgtime = GetCurrentCycleStart(now)
             /\ LoadAllRoomStates(dbState')[r] = roomState'[r]]_vars

\* The needs_flush pass of room r ends (lines 1475-1479 after a pass).
FlushPassEnds(r) == PollPassEnds(r) /\ pollKind = "flush"
\* The process is restarted in this step.
ProcessRestarts == restarts' # restarts

\* C12: a room marked needs_flush gets its final pass before its counters are
\* zeroed and its flag is cleared: while the process stays up, the flag of a
\* marked room is cleared, or the poll loop zeroes its counters, only by the end
\* of its needs_flush pass, and no regular pass of the poll loop starts while a
\* room is still marked.
C12_FinalPassBeforeFlagCleared ==
    [][~ProcessRestarts =>
         \A r \in Rooms : roomState[r].needs_flush =>
             /\ ~roomState'[r].needs_flush => FlushPassEnds(r)
             /\ \A q \in Rooms : PollPassStarts(q) => pollKind' = "flush"]_vars

\* The call has returned and its only prior ticket carries phenomenon old.
DedupDoneWith(new, old) ==
    /\ dedup.pc = "done" /\ dedup.phenomenon = new
    /\ Len(dedup.existing_tickets) = 1 /\ dedup.existing_tickets[1].phenomenon = old

\* C13: stage A (threshold 0.7, similarity the larger of Jaccard and
\* containment over the 2-character substrings) judges "yun ji wu fa kai ji"
\* against the prior "yun ji bu kai ji" a duplicate and "TikTok wu wang luo"
\* against "pi liang qi dong yun ji shi bai" not a duplicate, and in general
\* matches exactly when the similarity to some prior phenomenon in scope is at
\* least the threshold.
C13_StageAExamplesAndRule ==
    /\ DedupDoneWith(YunJiWuFaKaiJi, YunJiBuKaiJi) => dedup.out.stage_a
    /\ DedupDoneWith(TikTokWuWangLuo, PiLiangQiDongYunJiShiBai) => ~dedup.out.stage_a
    /\ dedup.pc = "done" =>
         (dedup.out.stage_a <=>
            \E i \in 1..Len(dedup.existing_tickets) :
               AtLeast(Similarity(_extract_bigrams(dedup.phenomenon),
                                  _extract_bigrams(dedup.existing_tickets[i].phenomenon)),
                       ISSUE_DEDUP_SIMILARITY_THRESHOLD))

\* The replies that say yes.
Affirmative(reply) ==
    ~reply.raised /\ reply.text \in {<<"Y", "E", "S">>, <<" ", "y", "e", "s", " ">>}

C15_SimilaritySymmetricAndReflexive ==
    dedup.pc = "done" =>
        LET a == _extract_bigrams(dedup.phenomenon)
        IN  /\ Similarity(a, a).num = Similarity(a, a).den
            /\ \A i \in 1..Len(dedup.existing_tickets) :
                 LET b == _extract_bigrams(dedup.existing_tickets[i].phenomenon)
                 IN  /\ AtLeast(Similarity(a, b), Similarity(b, a))
                     /\ AtLeast(Similarity(b, a), Similarity(a, b))

PollVisits(r) ==
    /\ pollPc = "rooms" /\ pollRoomQ # <<>> /\ Head(pollRoomQ) = r
    /\ pollRoomQ' = Tail(pollRoomQ)
\* Every message of room r is an effective one without a high-risk keyword.
EffectiveOnly(r) == \A m \in source : m.room = r => m.kind = "eff"

\* C17: without a high-risk keyword and outside the cooldown, a room whose
\* effective messages stay under the threshold does not trigger, the message
\* that brings pending_count to the threshold triggers with reason
\* effective-volume, and when that pass finishes pending_count is 0 and the
\* cooldown has started.
C17_ThresholdTriggersThenResetsAndCools ==
    [][\A r \in Rooms :
         /\ (PollVisits(r) /\ EffectiveOnly(r) /\ ~IsInCooldown(lastFull, r, now)) =>
              /\ roomState'[r].pending_count < ROOM_MIN_MESSAGES_FOR_ANALYZE
                   => pollRoom' = NoRoom
              /\ (/\ GetRoomState(roomState, r).pending_count < ROOM_MIN_MESSAGES_FOR_ANALYZE
                  /\ roomState'[r].pending_count >= ROOM_MIN_MESSAGES_FOR_ANALYZE)
                   => pollRoom' = r /\ pollKind' = "new"
         /\ (PollPassEnds(r) /\ pollKind = "new") =>
              /\ roomState'[r].pending_count = 0
              /\ IsInCooldown(lastFull', r, now) /\ lastFull'[r] = now]_vars

\* A pass triggered by effective volume has finished: the threshold's worth of
\* effective messages, arrived one after the other, is stored, the counters are
\* 0 and the cooldown runs.
C17_Witness ==
    /\ EffectiveOnly("r1")
    /\ Cardinality({m \in source : m.room = "r1" /\ m.id \in stored})
         >= ROOM_MIN_MESSAGES_FOR_ANALYZE
    /\ \E m1, m2 \in source : m1.t < m2.t
    /\ pollRoom = NoRoom /\ pollPc = "sleep" /\ sweepRoom = NoRoom /\ sweepPc = "idle"
    /\ lastRunDate = NoDate
    /\ roomState["r1"].pending_count = 0 /\ roomState["r1"].raw_pending_count = 0
    /\ lastFull["r1"] = now

\* Level a is strictly more severe than level b.
MoreSevere(a, b) ==
    <<a, b>> \in {<<"P0", "P1">>, <<"P0", "P2">>, <<"P0", "P3">>,
                  <<"P1", "P2">>, <<"P1", "P3">>, <<"P2", "P3">>}

\* C18: an eligible message for a key whose stored level is less severe than
\* the computed level is notified at once and the new level is stored,
\* whatever the dedup window, hit_count or last_sent_at of the event.
C18_EscalationSendsAtOnce ==
    (/\ alertLast.called /\ alertLast.eligible /\ alertLast.prev.present
     /\ MoreSevere(alertLast.alert_level, alertLast.prev.alert_level))
        => /\ alertLast.sent
           /\ alertEvents[alertLast.room].alert_level = alertLast.alert_level
           /\ alertEvents[alertLast.room].last_sent_at = alertLast.at

\* A P0 message on a P2 event that was notified inside the P0 window.
C18_Witness ==
    /\ alertLast.called /\ alertLast.eligible /\ alertLast.sent
    /\ alertLast.prev.present /\ alertLast.prev.alert_level = "P2"
    /\ alertLast.alert_level = "P0"
    /\ alertLast.prev.last_sent_at # NoSent
    /\ alertLast.at - alertLast.prev.last_sent_at < _dedup_window_seconds("P0")

\* The last call hit an event that has never been sent.
NeverSentHit ==
    /\ alertLast.called /\ alertLast.eligible
    /\ alertLast.prev.present /\ alertLast.prev.last_sent_at = NoSent

C20_OneEventPerDedupKey ==
    \A x, y \in alertRows : x.dedup_key = y.dedup_key => x = y

\* C21: over any sequence of should_send_alert calls the hit_count of an event
\* never decreases, and its last_sent_at, once set, never moves backward and
\* never returns to null.
C21_HitCountAndLastSentMonotonic ==
    [][\A r \in Rooms : alertEvents[r].present =>
         /\ alertEvents'[r].present
         /\ alertEvents'[r].hit_count >= alertEvents[r].hit_count
         /\ alertEvents[r].last_sent_at # NoSent =>
              /\ alertEvents'[r].last_sent_at # NoSent
              /\ alertEvents'[r].last_sent_at >= alertEvents[r].last_sent_at]_vars

\* The sweep is done with room r: its pass ended, or it was skipped for lack
\* of context (line 1922).
SweepHandled(r) ==
    \/ SweepPassEnds(r)
    \/ r \in sweepQ /\ r \notin sweepQ' /\ sweepPc' = "rooms" /\ sweepRoom' = NoRoom

\* C22: once the end-of-cycle sweep has handled a room it took for a
\* pending_count in [END_OF_CYCLE_MIN_MESSAGES, ROOM_MIN_MESSAGES_FOR_ANALYZE),
\* the room's pending_count and raw_pending_count are 0, whether the pre-check
\* was negative, the issue a duplicate, an issue created or no context available.
C22_SweepLeavesCountersZero ==
    [][\A r \in Rooms : SweepHandled(r) =>
         /\ roomState'[r].pending_count = 0
         /\ roomState'[r].raw_pending_count = 0]_vars

\* A step of the sweep inside a run that was called again with no message
\* arrived or ingested since the previous run returned.
SecondRunStep == rerun = "second" /\ rerun' # "off" /\ sweepVars' # sweepVars

\* C23: the end-of-cycle sweep is idempotent: a second run of
\* run_end_of_cycle_analysis with no new message in between creates no issue
\* and no ticket and leaves every RoomState unchanged.
C23_SecondSweepChangesNothing ==
    [][SecondRunStep =>
         /\ issues' = issues /\ tickets' = tickets
         /\ roomState' = roomState /\ lastFull' = lastFull]_vars

\* The step in which process_message, called for room r by a pass whose
\* phenomenon passed the duplicate check, returns or raises.
AcceptedTriggerDone(r) ==
    \/ pollPc = "process" /\ pollRoom = r /\ pollPc' # "process"
    \/ sweepPc = "process" /\ sweepRoom = r /\ sweepPc' # "process"

\* C24: every accepted trigger (a pass whose phenomenon passed the duplicate
\* check) creates exactly one issue record, never zero and never more than
\* one, and no other step of the subsystem touches the issue records.
C24_AcceptedTriggerCreatesOneIssue ==
    [][\A r \in Rooms :
         issues'[r] = IF AcceptedTriggerDone(r) THEN issues[r] + 1 ELSE issues[r]]_vars

\* C25: the placeholder phenomenon (also what a failed or unparseable analysis
\* yields) is treated as absent by every caller: no pass - new-message,
\* accumulated, needs_flush or sweep - takes it on to the semantic duplicate
\* check or to process_message, where a ticket would be stored for it.
C25_PlaceholderTreatedAsAbsent ==
    /\ pollPc \in {"dedup", "process"} => pollRes = "ok"
    /\ sweepPc \in {"dedup", "process"} => sweepRes = "ok"

\* C26: when writing a room's state to durable storage fails, the rest of
\* that room's processing in the tick is abandoned and no partial state becomes
\* visible: the in-memory RoomState does not run ahead of durable storage.
C26_FailedSaveLeavesNoPartialState ==
    [][saveFails' # saveFails =>
         /\ \A r \in Rooms :
              roomState'[r] # roomState[r] => RowOf(roomState'[r]) = dbState'[r]
         /\ pollPc' # pollPc => pollPc' \notin PassPcs]_vars

\* The wall-clock reading of the call and its age: the time from the returned
\* cycle start to the instant of the call.
CycleWall == LocalTime(cycleCall.instant, cycleCall.shift_at, cycleCall.shift_by)
CycleAge == cycleCall.instant - cycleCall.cycle_start
CycleStartWall == LocalTime(cycleCall.cycle_start, cycleCall.shift_at, cycleCall.shift_by)

\* The rule and the two examples: one hour before the cutoff the cycle start is
\* yesterday's cutoff, at the cutoff it is today's; never in the future.
CycleRule ==
    /\ HourOf(CycleStartWall) = DAILY_CYCLE_START_HOUR
    /\ DateOf(CycleStartWall) = IF HourOf(CycleWall) >= DAILY_CYCLE_START_HOUR
                                THEN DateOf(CycleWall) ELSE DateOf(CycleWall) - 1
    /\ cycleCall.cycle_start <= cycleCall.instant

\* C27 as stated: the cycle start is today's cutoff when now is at or after it,
\* otherwise yesterday's; it is never in the future and never a full day or
\* more in the past (a reading stands for the hour it begins, so an age of
\* DayLen hours is more than 24 h once any of that hour has passed).
C27_CycleStartWithinOneDay ==
    cycleCall.pc = "done" => CycleRule /\ CycleAge < DayLen

\* C27, amended: the rule and "never in the future" hold on the wall clock; the
\* cycle start is less than a day old when no clock shift lies between it and
\* now, and less than a day and an hour old otherwise.
C27_CycleStartWithinOneWallClockDay ==
    cycleCall.pc = "done" =>
        /\ CycleRule
        /\ CycleAge < DayLen + 1
        /\ (cycleCall.shift_by = 0
              \/ cycleCall.shift_at <= cycleCall.cycle_start
              \/ cycleCall.shift_at > cycleCall.instant) => CycleAge < DayLen

\* The call one hour before the cutoff on the morning after the clocks went
\* back: yesterday's cutoff is a full day old.
C27_Witness ==
    /\ cycleCall.pc = "done" /\ cycleCall.shift_by = -1
    /\ HourOf(CycleWall) = DAILY_CYCLE_START_HOUR - 1
    /\ cycleCall.cycle_start < cycleCall.shift_at /\ cycleCall.shift_at <= cycleCall.instant
    /\ CycleAge = DayLen

\* Message number id is in the source records with a timestamp after the
\* start of the current cycle, and the poll loop has not ended.
AwaitsIngest(id) ==
    /\ \E m \in source : m.id = id /\ m.t > GetCurrentCycleStart(now)
    /\ pollPc # "dead"

\* Message number id has been ingested, or its cycle or the poll loop is over.
IngestedOrOver(id) ==
    \/ id \in stored
    \/ pollPc = "dead"
    \/ \E m \in source : m.id = id /\ m.t < GetCurrentCycleStart(now)

\* C28: every text message with content in a room's source records whose
\* timestamp is inside the current cycle is eventually ingested and counted by
\* the poll loop, also one whose timestamp equals that of the last record
\* fetched and one inserted with a timestamp at or below the cursor.
C28_EveryMessageEventuallyIngested ==
    \A id \in 1..MaxMsgs : AwaitsIngest(id) ~> IngestedOrOver(id)

\* Room r holds a count for a message that was ingested after the pass now
\* running for it read its context, and no other pass is analysing the room.
CountedSinceRead(r) ==
    /\ lastNormalStart[r] # 0 /\ pollRoom # r
    /\ roomState[r].raw_pending_count > 0
    /\ \E m \in source : m.room = r /\ m.id \in stored /\ m.t > lastNormalStart[r]

\* C29: a counter reset by one task never discards increments made by the
\* other: when the sweep zeroes a room's counters after an await, no message
\* that the poll loop counted during the await, and that was not in the context
\* the sweep read, loses its count without analysis.
C29_ResetKeepsOtherTasksIncrements ==
    [][\A r \in Rooms : SweepPassEnds(r) => ~CountedSinceRead(r)]_vars

\* C30: after any sequence of triage passes the stored tickets contain no two
\* in-scope tickets whose phenomena have a Stage-A similarity at or above the
\* threshold.
C30_NoTwoSimilarTickets ==
    \A i, j \in 1..Len(dedup.existing_tickets) :
        i < j => ~StageAMatches(dedup.existing_tickets[j].phenomenon,
                                <<dedup.existing_tickets[i]>>)

\* The poll loop's first tick after the process came up (lines 1417-1427).
FirstTickStep == pollPc = "boot" /\ pollPc' = "flush"

\* The persisted row of room r carries counts made in a cycle that is over:
\* its cursor and the time of its last visit lie before the current cycle
\* start.
RowOfEarlierCycle(r, t) ==
    /\ dbState[r].present
    /\ dbState[r].last_msgtime < GetCurrentCycleStart(t)
    /\ dbState[r].last_processed_at < GetCurrentCycleStart(t)
    /\ (dbState[r].pending_count > 0 \/ dbState[r].raw_pending_count > 0)

\* C31: when the process comes up with persisted room states whose counts were
\* made before a cycle boundary that passed while it was down, the first tick
\* detects the rollover for those rooms: each is marked needs_flush or has
\* both counters zero, and none carries the old counts into the new cycle.
C31_FirstTickDetectsMissedRollover ==
    [][FirstTickStep =>
         \A r \in Rooms : RowOfEarlierCycle(r, now) =>
             roomState'[r].needs_flush \/ CountersZero(roomState'[r])]_vars

\* Room r had a pass that was not a high-risk-keyword trigger start less than
\* ROOM_COOLDOWN_SECONDS ago and is in cooldown.
CoolingAfterNormalTrigger(r) == lastNormalStart[r] > 0 /\ IsInCooldown(lastFull, r, now)

\* C32: a restart does not shorten a room's cooldown: a room whose last
\* non-high-risk trigger happened less than ROOM_COOLDOWN_SECONDS before the
\* restart, and which is in cooldown, is still in cooldown after the restart.
C32_RestartKeepsCooldown ==
    [][ProcessRestarts =>
         \A r \in Rooms : CoolingAfterNormalTrigger(r) => IsInCooldown(lastFull', r, now')]_vars

\* ------------------------------------------- a kill in the middle of an ingest
\* The process is killed inside the ingest loop of polling_loop (lines
\* 1615-1681): some of the batch's records are committed to WeComMessage (line
\* 1651, one commit per record, in fetch order), the cursor and the counters of
\* lines 1674-1681 are neither set nor saved, and the process is started again.
KillDuringIngest(recs, done) ==
    /\ pollPc = "rooms" /\ SweepYield
    /\ restarts < caps.restarts
    /\ LET r == Head(pollRoomQ)
           st == GetRoomState(roomState, r)
           inserted == NewlyStored(recs, stored)
       IN  /\ recs \in FetchRoomMessages(source, r, st.last_msgtime, pollCs)
           /\ done # {} /\ done \subseteq inserted
           /\ \A a \in done, b \in inserted \ done : a.t <= b.t
           /\ stored' = stored \cup {m.id : m \in done}
    /\ restarts' = restarts + 1
    /\ roomState' = [r \in Rooms |-> AbsentState]
    /\ lastFull' = [r \in Rooms |-> 0]
    /\ currentCycleDate' = NoDate
    /\ pollPc' = "boot" /\ pollCs' = 0 /\ pollFlushQ' = {} /\ pollRoomQ' = <<>>
    /\ pollRoom' = NoRoom /\ pollKind' = "-" /\ pollRes' = "-"
    /\ sweepPc' = "idle" /\ sweepCs' = 0 /\ sweepQ' = {} /\ sweepRoom' = NoRoom
    /\ sweepRes' = "-" /\ sweepDate' = NoDate /\ lastRunDate' = NoDate
    /\ rerun' = RerunAfterNews(TRUE)
    /\ UNCHANGED <<now, source, tickets, issues, dbState, saveFails, caps, lastNormalStart,
                   alertVars, tableVars>>

KillDuringIngestStep == \E recs \in SUBSET source, done \in SUBSET source : KillDuringIngest(recs, done)

InitKill ==
    /\ EngineInit /\ AlertIdle /\ CallsIdle
    /\ caps = Caps([r \in Rooms |-> IF r = "r1" THEN MaxMsgs ELSE 0], MaxRestarts, 0)

NextKill == Next \/ KillDuringIngestStep

SpecKill == InitKill /\ [][NextKill]_vars

\* Message m of room r is in the message store, was never added to the
\* counters, and the visit of this step moves the room's cursor over it.
PassedOverUncounted(r, m) ==
    /\ m.room = r /\ m.id \in stored /\ m.id \notin DOMAIN counted
    /\ m.t > Max2(GetRoomState(roomState, r).last_msgtime, pollCs)
    /\ m.t <= roomState'[r].last_msgtime

\* C33: when the process died after fetched messages were committed to the
\* message store and before the room's cursor and counters were saved, the
\* messages are still counted after the restart: a visit that moves the cursor
\* over a stored message that was never counted adds it to the counters.
C33_StoredMessagesCountedAfterKill ==
    [][\A r \in Rooms : PollVisits(r) =>
         \A m \in source : PassedOverUncounted(r, m) => m.id \in DOMAIN counted']_vars

\* ------------------------------------- the alert gate as process_message calls it
MaxNotifyCalls == 2
PROCESS_ONLY_HARD == TRUE
HARD_MIN_SEVERITY == "S2"

\* issue_filter_service._severity_rank
_severity_rank(severity) ==
    IF severity = "S1" THEN 1 ELSE IF severity = "S2" THEN 2
    ELSE IF severity = "S3" THEN 3 ELSE IF severity = "S4" THEN 4 ELSE 0

\* issue_filter_service.is_hard_issue; hint is "the text holds a hard keyword
\* or the knowledge base knows a similar hard issue".
is_hard_issue(severity, is_bug, hint) ==
    IF ~PROCESS_ONLY_HARD THEN TRUE
    ELSE \/ _severity_rank(severity) >= _severity_rank(HARD_MIN_SEVERITY)
         \/ is_bug
         \/ hint

\* process_message lines 1126-1134 and 1186-1206: allow_alert (True from every
\* caller) is turned off for an anchor message older than the current cycle;
\* should_send_alert is called whatever allow_alert and is_hard are; the
\* notification is built and sent only under allow_alert, send_alert and is_hard.
ProcessMessageAlert(room, severity, risk_score, is_alert, is_bug, hint, old_anchor, column_default) ==
    /\ alertCalls < MaxNotifyCalls
    /\ alertCalls' = alertCalls + 1
    /\ LET is_hard == is_hard_issue(severity, is_bug, hint)
           allow_alert == ~old_anchor
           alert_level == compute_alert_level(severity, risk_score)
           eligible == AlertEligible(severity, risk_score, is_alert, is_bug)
           latest == alertEvents[room]
           d == GateDecision(latest, alert_level, alertNow, alertMinHits, column_default)
           send_alert == eligible /\ d.sent
       IN  /\ alertEvents' = IF eligible THEN [alertEvents EXCEPT ![room] = d.event]
                             ELSE alertEvents
           /\ alertLast' = [called |-> TRUE, room |-> room, alert_level |-> alert_level,
                            eligible |-> eligible, sent |-> send_alert,
                            prev |-> latest, at |-> alertNow,
                            is_hard |-> is_hard, allow_alert |-> allow_alert,
                            notified |-> allow_alert /\ send_alert /\ is_hard]
    /\ UNCHANGED <<engineVars, callVars, alertNow, alertMinHits>>

ProcessMessageAlertStep ==
    \E room \in Rooms, severity \in Severities, risk_score \in RiskScores,
       is_alert \in BOOLEAN, is_bug \in BOOLEAN, hint \in BOOLEAN, old_anchor \in BOOLEAN,
       column_default \in ColumnDefaults :
        ProcessMessageAlert(room, severity, risk_score, is_alert, is_bug, hint, old_anchor, column_default)

NotifyNext == AlertTick \/ ProcessMessageAlertStep

NotifySpec == AlertInit /\ [][NotifyNext]_vars

\* The last call set the event's last_sent_at to the time of the call and
\* returned 'send'.
LastSentAdvanced ==
    /\ alertLast.called /\ alertLast.sent
    /\ alertEvents[alertLast.room].last_sent_at = alertLast.at

\* C34: an event's last_sent_at advances only when a notification is
\* delivered: whenever should_send_alert has set last_sent_at and returned
\* 'send', process_message sends the notification, also when the issue is not
\* hard or allow_alert was turned off for a message older than the cycle.
C34_LastSentOnlyWhenNotified == LastSentAdvanced => alertLast.notified

\* ------------------------------------ more active rooms than one round takes
StarveRoomsPerRound == 1
StarveMsgs == [r \in Rooms |-> IF r = "r1" THEN 1 ELSE 2]

\* Two rooms receive small talk (noise) and a round takes one room.
InitStarve ==
    /\ EngineInit /\ AlertIdle /\ CallsIdle
    /\ caps = [Caps(StarveMsgs, 0, 0) EXCEPT !.per_round = StarveRoomsPerRound,
                                              !.kinds = [r \in Rooms |-> <<{"noise"}>>]]

\* The steps such rooms can cause: small talk fires no volume trigger, so the
\* only pass is the needs_flush pass after a rollover.
StarveNext ==
    \/ Tick \/ ArriveStep
    \/ PollBeginStep \/ PollFlushRoomStep \/ PollSelectRooms \/ PollVisitStep
    \/ PollAnalyzeStep \/ PollProcessStep
    \/ SweepBegin

StarveSpec == InitStarve /\ [][StarveNext]_vars /\ Fairness

\* Room r is active in the current cycle and holds a message the poll loop has
\* not read: one after the cycle start and after the room's cursor, which a
\* visit of the room would fetch.
HasUnread(r) ==
    /\ pollPc # "dead"
    /\ \E m \in source :
         /\ m.room = r /\ m.id \notin stored
         /\ m.t > Max2(GetRoomState(roomState, r).last_msgtime, GetCurrentCycleStart(now))

\* No message of room r in the current cycle is left for a visit to read (the
\* room was visited, or the cycle of its messages is over), or the poll loop
\* is over.
VisitedSince(r) ==
    \/ pollPc = "dead"
    \/ \A m \in source : m.room = r => (m.id \in stored \/ m.t <= GetCurrentCycleStart(now))

\* Another active room is sorted before room r: its last_processed_at is
\* smaller (no tie for the sort to break).
SortedBehind(r) ==
    \E q \in ActiveRooms(source, GetCurrentCycleStart(now)) \ {r} :
        GetRoomState(roomState, q).last_processed_at < GetRoomState(roomState, r).last_processed_at

\* C35: no starvation: with more active rooms than a round takes, every active
\* room with unread messages is eventually visited by the poll loop, which
\* then reads them: no such room stays behind another room in the ascending
\* last_processed_at order for ever without being visited.
C35_NoStarvation ==
    \A r \in Rooms : (HasUnread(r) /\ SortedBehind(r)) ~> (VisitedSince(r) \/ ~SortedBehind(r))

\* Room r is at a volume threshold, in cooldown, and outside a pass, with the
\* poll loop running; its cooldown ends before the clock does.
WaitsForCooldown(r) ==
    /\ roomState[r].present
    /\ \/ roomState[r].pending_count >= ROOM_MIN_MESSAGES_FOR_ANALYZE
       \/ roomState[r].raw_pending_count >= ROOM_RAW_MIN_MESSAGES_FOR_ANALYZE
    /\ IsInCooldown(lastFull, r, now)
    /\ lastFull[r] + ROOM_COOLDOWN_SECONDS <= MaxTime
    /\ pollRoom # r /\ sweepRoom # r
    /\ pollPc # "dead"

\* A triage pass for room r is running.
InTriagePass(r) == pollRoom = r \/ sweepRoom = r

CooldownMsgs == 3

InitCooldown ==
    /\ EngineInit /\ AlertIdle /\ CallsIdle
    /\ caps = [Caps([r \in Rooms |-> IF r = "r1" THEN CooldownMsgs ELSE 0], 0, 0) EXCEPT !.kinds = [r \in Rooms |-> <<{"hr"}, {"eff"}>>]]

SpecCooldown == InitCooldown /\ [][Next]_vars /\ Fairness /\ WF_vars(Tick)

\* C37: no source message is counted more than once into a room's
\* pending_count and raw_pending_count over the whole run, also when it is
\* fetched again after a rollover moved the cursor back or after a restart.
C37_MessageCountedAtMostOnce == \A i \in DOMAIN counted : counted[i] <= 1

\* After a restart the poll loop has fetched again a message that was counted
\* before a save failed: storage had lost the cursor, the cursor is past the
\* message once more, and the message was not counted again (the room's
\* counters are zero without any pass having ended since the restart).
C37_Witness ==
    /\ restarts = 1 /\ saveFails = 1
    /\ \E m \in source :
         /\ m.room = "r1" /\ m.id \in DOMAIN counted /\ counted[m.id] = 1
         /\ m.t > GetCurrentCycleStart(now)
         /\ roomState["r1"].present /\ roomState["r1"].last_msgtime >= m.t
         /\ dbState["r1"].present /\ dbState["r1"].last_msgtime >= m.t
    /\ roomState["r1"].raw_pending_count = 0 /\ lastFull["r1"] = 0
    /\ pollRoom = NoRoom /\ sweepRoom = NoRoom

\* ---------------------------------------------------------------------------
\* C38: the pre-check answers "no issue" after a trigger.
\* ---------------------------------------------------------------------------

\* The pre-check of room r's pass returns in this step, in the poll loop
\* (new-message and accumulated path, lines 1529-1544 and 1729-1749) or in
\* the sweep (lines 1926-1941).
PollPreCheckReturns(r) == pollRoom = r /\ pollPc = "prejudge" /\ pollPc' # "prejudge" /\ restarts' = restarts
SweepPreCheckReturns(r) == sweepRoom = r /\ sweepPc = "prejudge" /\ sweepPc' # "prejudge" /\ restarts' = restarts

\* What the skip leaves behind: no issue was created, both counters are 0
\* and the cooldown runs from now.
SkippedWithCooldown(r) ==
    /\ issues' = issues /\ tickets' = tickets
    /\ roomState'[r].pending_count = 0 /\ roomState'[r].raw_pending_count = 0
    /\ lastFull'[r] = now

\* The full classification is the next thing the pass does.
PollClassifies(r) == pollRoom' = r /\ pollPc' = "analyze"
SweepClassifies(r) == sweepRoom' = r /\ sweepPc' = "analyze"

\* C38: when the pre-check of a pass returns, then with raw_pending_count at
\* or above the override the pass goes on to the full classification, and
\* below it the pass either goes on to the classification (the pre-check saw
\* an issue) or ends without it, with no issue created, both counters 0 and the cooldown
\* started; in the new-message path, the accumulated path and the sweep.
C38_PreCheckSkipStartsCooldown ==
    [][\A r \in Rooms :
         /\ PollPreCheckReturns(r) =>
              IF roomState[r].raw_pending_count >= PreJudgeRawOverride
              THEN PollClassifies(r)
              ELSE PollClassifies(r) \/ (pollRoom' = NoRoom /\ SkippedWithCooldown(r))
         /\ SweepPreCheckReturns(r) =>
              IF roomState[r].raw_pending_count >= PreJudgeRawOverride
              THEN SweepClassifies(r)
              ELSE SweepClassifies(r) \/ (sweepRoom' = NoRoom /\ SkippedWithCooldown(r))]_vars

\* The same for the poll loop's two paths alone.
C38_PollPreCheckSkip ==
    [][\A r \in Rooms :
         PollPreCheckReturns(r) =>
              IF roomState[r].raw_pending_count >= PreJudgeRawOverride
              THEN PollClassifies(r)
              ELSE PollClassifies(r) \/ (pollRoom' = NoRoom /\ SkippedWithCooldown(r))]_vars

\* ---------------------------------------------------------------------------
\* C39: the resolved [since, until] window and the outcome of a triage pass.
\* ---------------------------------------------------------------------------

\* The ChatRecord rows of the room of one pass: message ids 1..MaxWinMsgs,
\* times 1..MaxWinTime; 0 stands for None.
MaxWinMsgs == 2
MaxWinTime == 3
WinRecordSets ==
    {recs \in SUBSET [id : 1..MaxWinMsgs, t : 1..MaxWinTime] :
        \A a, b \in recs : a.id = b.id => a = b}

\* The time spans of _build_detail_url_with_time_window, scaled: the buffer
\* around a resolved window (2 minutes), before_minutes (5 minutes) and the
\* span after the anchor (60 minutes).
WINDOW_BUFFER == 1
BEFORE_ANCHOR == 2
AFTER_ANCHOR == 4

\* ChatRecord.msgtime of message msg_id in the room, 0 when there is none.
MsgtimeOf(recs, msg_id) ==
    IF \E m \in recs : m.id = msg_id THEN (CHOOSE m \in recs : m.id = msg_id).t ELSE 0

\* max(ChatRecord.msgtime) of the room, 0 when it has no record.
LatestMsgtime(recs) ==
    IF recs = {} THEN 0 ELSE CHOOSE t \in {m.t : m \in recs} : \A m \in recs : m.t <= t

\* _build_detail_url_with_time_window(db, room_id, anchor_msg_id=msg_id,
\* since_msgtime=..., until_msgtime=...): the query part of the URL, or the
\* bare room URL when neither an anchor nor a latest message is found.
_build_detail_url_with_time_window(recs, anchor_msg_id, since_msgtime, until_msgtime) ==
    LET looked_up == IF anchor_msg_id # 0 THEN MsgtimeOf(recs, anchor_msg_id) ELSE 0
        latest_msgtime == LatestMsgtime(recs)
        anchor_ts == IF looked_up # 0 THEN looked_up ELSE latest_msgtime
        since_ts == IF since_msgtime # 0 THEN since_msgtime - WINDOW_BUFFER
                    ELSE anchor_ts - BEFORE_ANCHOR
        until_ts == IF until_msgtime # 0 THEN until_msgtime + WINDOW_BUFFER
                    ELSE IF latest_msgtime # 0 THEN latest_msgtime
                    ELSE anchor_ts + AFTER_ANCHOR
    IN  IF looked_up = 0 /\ latest_msgtime = 0
        THEN [query |-> FALSE, since |-> 0, until |-> 0]
        ELSE [query |-> TRUE, since |-> since_ts, until |-> until_ts]

\* A variant of process_message that takes the start of the resolved window,
\* when there is one, for the time of the issue.
ProcessMessageSinceAsIssueTime(recs, msg_id, is_hard, send_alert, cycle_start_ms, since_msgtime, until_msgtime) ==
    LET detail_url == _build_detail_url_with_time_window(recs, msg_id, since_msgtime, until_msgtime)
        issue_msgtime == IF since_msgtime # 0 THEN since_msgtime ELSE MsgtimeOf(recs, msg_id)
        allow_alert == ~(issue_msgtime # 0 /\ issue_msgtime < cycle_start_ms)
    IN  [issue |-> TRUE, draft |-> is_hard, alert |-> allow_alert /\ send_alert /\ is_hard,
         detail_url |-> detail_url]

\* process_message as the poll loop calls it (allow_reply, allow_alert and
\* allow_ticket True): the Issue row is always written (lines 1073-1095), the
\* draft for a hard issue (1141-1180), the URL is built from the window
\* (1108-1113), an issue older than the cycle is not pushed (1115-1134), and
\* the push needs allow_alert, send_alert and is_hard (1203).  is_hard and
\* send_alert are the answers of is_hard_issue and should_send_alert.
ProcessMessageWindow(recs, msg_id, is_hard, send_alert, cycle_start_ms, since_msgtime, until_msgtime) ==
    LET detail_url == _build_detail_url_with_time_window(recs, msg_id, since_msgtime, until_msgtime)
        issue_msgtime == MsgtimeOf(recs, msg_id)
        allow_alert == ~(issue_msgtime # 0 /\ issue_msgtime < cycle_start_ms)
    IN  [issue |-> TRUE, draft |-> is_hard, alert |-> allow_alert /\ send_alert /\ is_hard,
         detail_url |-> detail_url]

\* Lines 1755-1817: the duplicate check, then (for a new issue) the pass
\* resolves the window, calls process_message, and in both cases zeroes the
\* counters and starts the cooldown at time t.
TriageRun(recs, msg_id, is_dup, is_hard, send_alert, cycle_start_ms, t, since_msgtime, until_msgtime) ==
    LET skipped == [issue |-> FALSE, draft |-> FALSE, alert |-> FALSE,
                    detail_url |-> [query |-> FALSE, since |-> 0, until |-> 0]]
        done == IF is_dup THEN skipped
                ELSE ProcessMessageWindow(recs, msg_id, is_hard, send_alert, cycle_start_ms,
                                          since_msgtime, until_msgtime)
    IN  [duplicate |-> is_dup, issue |-> done.issue, draft |-> done.draft,
         alert |-> done.alert, detail_url |-> done.detail_url,
         pending_count |-> 0, raw_pending_count |-> 0, last_full |-> t]

\* The window values _find_msg_time_by_quote can resolve in a room: the
\* msgtime of one of its records, or None.
WindowValues(recs) == {0} \cup {m.t : m \in recs}

\* The same pass twice, on two resolved windows.
TriageRunTwice ==
    /\ winCall.pc = "input"
    /\ LET c == winCall
       IN  winCall' = [c EXCEPT
               !.pc = "done",
               !.run1 = TriageRun(c.recs, c.msg_id, c.is_dup, c.is_hard, c.send_alert,
                                  c.cycle_start_ms, c.t, c.since1, c.until1),
               !.run2 = TriageRun(c.recs, c.msg_id, c.is_dup, c.is_hard, c.send_alert,
                                  c.cycle_start_ms, c.t, c.since2, c.until2)]
    /\ UNCHANGED <<engineVars, alertVars, dedup, trigCall, alertRows, cycleCall, rerun, counted,
                   anchorCall>>

WindowCycleStart == 2

\* Every room content, anchor (message MaxWinMsgs + 1 is the fallback id of
\* a room without a matching record), answers of the collaborators and pair
\* of windows.
WindowInit ==
    /\ EngineInit /\ AlertIdle
    /\ caps = Caps([r \in Rooms |-> 0], 0, 0)
    /\ dedup = NoDedupCall /\ trigCall = NoTrigCall /\ alertRows = {} /\ rerun = "off"
    /\ counted = <<>> /\ cycleCall = NoCycleCall /\ anchorCall = NoAnchorCall
    /\ \E recs \in WinRecordSets, msg_id \in 1..(MaxWinMsgs + 1), is_dup, is_hard, send_alert \in BOOLEAN :
         \E since1, until1, since2, until2 \in WindowValues(recs) :
           winCall = [pc |-> "input", recs |-> recs, msg_id |-> msg_id, is_dup |-> is_dup,
                      is_hard |-> is_hard, send_alert |-> send_alert,
                      cycle_start_ms |-> WindowCycleStart, t |-> InitTime,
                      since1 |-> since1, until1 |-> until1,
                      since2 |-> since2, until2 |-> until2,
                      run1 |-> <<>>, run2 |-> <<>>]

WindowSpec == WindowInit /\ [][TriageRunTwice]_vars

\* What a run leaves behind apart from the navigation URL.
TriageOutcome(run) ==
    <<run.duplicate, run.issue, run.draft, run.alert, run.pending_count,
      run.raw_pending_count, run.last_full>>

\* C39: two runs of a triage pass that differ only in the resolved
\* [since, until] window end with the same duplicate verdict, the same issue
\* and ticket creation, the same alert decision and the same counters and
\* cooldown; only the navigation URL may differ.
C39_WindowNeverInfluencesTriage ==
    winCall.pc = "done" => TriageOutcome(winCall.run1) = TriageOutcome(winCall.run2)

\* Two runs on different windows that both created the issue and the ticket
\* and pushed the alert, with different URLs.
C39_Witness ==
    /\ winCall.pc = "done"
    /\ <<winCall.since1, winCall.until1>> # <<winCall.since2, winCall.until2>>
    /\ winCall.run1.draft /\ winCall.run1.alert /\ winCall.run2.draft /\ winCall.run2.alert
    /\ winCall.run1.detail_url # winCall.run2.detail_url

\* ---------------------------------------------------------------------------
\* C40: the anchor resolver.
\* ---------------------------------------------------------------------------

\* Texts are sequences of characters. Join puts single spaces between words.
RECURSIVE Join(_)
Join(words) ==
    IF words = <<>> THEN <<>>
    ELSE IF Len(words) = 1 THEN Head(words)
    ELSE Head(words) \o <<" ">> \o Join(Tail(words))

Twice(c) == <<c, c>>
NineWords ==
    <<Twice("a"), Twice("b"), Twice("c"), Twice("d"), Twice("e"), Twice("f"), Twice("g"),
      Twice("h"), Twice("i")>>
NineWordsBack == [i \in 1..Len(NineWords) |-> NineWords[Len(NineWords) + 1 - i]]

\* The quotes and message contents of a call: no quote, a quote that is too
\* short once stripped, a quote of one word and one of nine words; contents
\* that contain the long quote, lie inside it, share all or some of its words
\* in another order, or share nothing.
AnchorQuotes ==
    {<<>>,
     <<" ", "T", "e", "s", "t", " ">>,
     <<"N", "o", "t", "e", "s">>,
     Join(NineWords)}
AnchorContents ==
    {Twice("a"),
     Join(NineWordsBack),
     Join(NineWords) \o <<" ">> \o Twice("z"),
     Join(<<Twice("b"), Twice("z"), Twice("a")>>),
     <<"n", "o", "t", "e", "s", " ", "o", "n">>,
     Join(<<Twice("z"), Twice("y")>>)}
MaxCandidates == 2

\* msg_list: candidates in the order of the context, oldest first; the i-th
\* has msg_id i, and its ChatRecord has msgtime i.
CandidateLists ==
    UNION {[1..n -> AnchorContents] : n \in 1..MaxCandidates}

\* str.strip().lower() and str.lower().
LowerText(text) == [i \in 1..Len(text) |-> Lower(text[i])]
StripLower(text) ==
    LET RECURSIVE Lead(_)
        Lead(s) == IF s # <<>> /\ Head(s) = " " THEN Lead(Tail(s)) ELSE s
        RECURSIVE Trail(_)
        Trail(s) == IF s # <<>> /\ s[Len(s)] = " " THEN Trail(SubSeq(s, 1, Len(s) - 1)) ELSE s
    IN  LowerText(Trail(Lead(text)))

\* a in b, for two strings.
IsSubstring(a, b) ==
    \E i \in 1..(Len(b) + 1) : i + Len(a) - 1 <= Len(b) /\ SubSeq(b, i, i + Len(a) - 1) = a

\* set(text.split()): the maximal runs without a space.
Words(text) ==
    {SubSeq(text, i, j) : <<i, j>> \in
        {p \in (1..Len(text)) \X (1..Len(text)) :
            /\ p[1] <= p[2]
            /\ \A k \in p[1]..p[2] : text[k] # " "
            /\ (p[1] = 1 \/ text[p[1] - 1] = " ")
            /\ (p[2] = Len(text) \/ text[p[2] + 1] = " ")}}

\* The score of one candidate (lines 630-645).
MatchScore(quote_clean, content) ==
    IF IsSubstring(quote_clean, content) THEN 100 + Len(quote_clean)
    ELSE IF IsSubstring(content, quote_clean) THEN 80 + Len(content)
    ELSE LET common_words == Words(quote_clean) \cap Words(content)
             meaningful_common == {w \in common_words : Len(w) >= 2}
         IN  Cardinality(meaningful_common) * 10

\* The loop of lines 620-648 over msg_list[from..]: the best id and score so
\* far are replaced by a candidate with a strictly higher score.
RECURSIVE BestMatch(_, _, _, _)
BestMatch(msg_list, quote_clean, from, best) ==
    IF from > Len(msg_list) THEN best
    ELSE LET content == LowerText(msg_list[from])
             score == IF content = <<>> THEN 0 ELSE MatchScore(quote_clean, content)
         IN  BestMatch(msg_list, quote_clean, from + 1,
                       IF score > best.score THEN [id |-> from, score |-> score] ELSE best)

\* _find_best_anchor_msg(msg_list, problem_quote); 0 stands for None.
_find_best_anchor_msg(msg_list, problem_quote) ==
    LET oldest == IF msg_list # <<>> THEN 1 ELSE 0
        quote_clean == StripLower(problem_quote)
        best == BestMatch(msg_list, quote_clean, 1, [id |-> 0, score |-> 0])
    IN  IF msg_list = <<>> \/ problem_quote = <<>> THEN oldest
        ELSE IF Len(quote_clean) < 5 THEN oldest
        ELSE IF best.id = 0 THEN oldest
        ELSE best.id

\* _find_msg_time_by_quote(db, room_id, msg_list, quote): the msgtime of the
\* best match, None (0) without one.
_find_msg_time_by_quote(msg_list, quote) ==
    LET quote_clean == StripLower(quote)
        best == BestMatch(msg_list, quote_clean, 1, [id |-> 0, score |-> 0])
    IN  IF msg_list = <<>> \/ quote = <<>> THEN 0
        ELSE IF Len(quote_clean) < 3 THEN 0
        ELSE best.id

\* One call of each resolver on the inputs drawn by the initial state.
FindBestAnchorMsgCall ==
    /\ anchorCall.pc = "input"
    /\ anchorCall' = [anchorCall EXCEPT
           !.pc = "done",
           !.anchor_msg_id = _find_best_anchor_msg(anchorCall.msg_list, anchorCall.quote),
           !.msgtime = _find_msg_time_by_quote(anchorCall.msg_list, anchorCall.quote)]
    /\ UNCHANGED <<engineVars, alertVars, dedup, trigCall, alertRows, cycleCall, rerun, counted,
                   winCall>>

AnchorInit ==
    /\ EngineInit /\ AlertIdle
    /\ caps = Caps([r \in Rooms |-> 0], 0, 0)
    /\ dedup = NoDedupCall /\ trigCall = NoTrigCall /\ alertRows = {} /\ rerun = "off"
    /\ counted = <<>> /\ cycleCall = NoCycleCall /\ winCall = NoWinCall
    /\ \E msg_list \in CandidateLists, quote \in AnchorQuotes :
         anchorCall = [pc |-> "input", msg_list |-> msg_list, quote |-> quote,
                       anchor_msg_id |-> 0, msgtime |-> 0]

AnchorSpec == AnchorInit /\ [][FindBestAnchorMsgCall]_vars

\* The score the claim gives a candidate: 100 plus the length of the
\* contained text when one of quote and candidate contains the other, else
\* ten for every shared word of two characters or more.
StatedScore(quote_clean, content) ==
    IF IsSubstring(quote_clean, content) THEN 100 + Len(quote_clean)
    ELSE IF IsSubstring(content, quote_clean) THEN 100 + Len(content)
    ELSE Cardinality({w \in Words(quote_clean) \cap Words(content) : Len(w) >= 2}) * 10

\* The candidate the claim names: the oldest for an empty or too short quote
\* or when every score is zero, else the earliest of those with the highest
\* score.
StatedAnchor(msg_list, quote) ==
    LET quote_clean == StripLower(quote)
        score == [i \in 1..Len(msg_list) |-> StatedScore(quote_clean, LowerText(msg_list[i]))]
        top == {i \in 1..Len(msg_list) : \A j \in 1..Len(msg_list) : score[j] <= score[i]}
    IN  IF Len(quote_clean) < 5 \/ \A i \in 1..Len(msg_list) : score[i] = 0 THEN 1
        ELSE CHOOSE i \in top : \A j \in top : i <= j

\* C40: for every ordered non-empty candidate list and every quote the anchor
\* resolver returns the id of the candidate with the highest score (100 plus
\* the overlap length for containment in either direction, else 10 times the
\* number of shared tokens of length >= 2), the earliest on a tie, and the
\* oldest candidate for an empty or too short quote or all-zero scores.
C40_AnchorIsHighestScore ==
    anchorCall.pc = "done" =>
        anchorCall.anchor_msg_id = StatedAnchor(anchorCall.msg_list, anchorCall.quote)

\* C40, for the resolver of the window quotes: it resolves to the same
\* candidate.
C40_QuoteTimeIsHighestScore ==
    anchorCall.pc = "done" =>
        anchorCall.msgtime = StatedAnchor(anchorCall.msg_list, anchorCall.quote)

====
